---------------------------- MODULE Spec2Model ----------------------------
(***************************************************************************)
(* Hub Labeling algorithms (savrus/hl): Graph, KHeap, Dijkstra, Labeling,  *)
(* Akiba pruned labeling, greedy HHL, USP-HHL and GHL.                      *)
(*                                                                         *)
(* C++ bool indices (label_v[u][forward], a_begin[forward][v]) are 0 / 1.  *)
(* Vectors indexed from 0 are functions on 0..n-1; vectors that are only   *)
(* appended to and scanned (labels, dirty, d, arcs) are sequences, so the  *)
(* C++ index i is the sequence index i+1.                                  *)
(* Keys of type double are exact rationals <<num, den>> (den = 0: +inf).   *)
(***************************************************************************)
EXTENDS Integers, Sequences, FiniteSets, TLC

\* ------------------------------------------------------------------ bounds
N == 3
MaxArcs == 4
MaxLen == 2
NumThreads == 2
\* the client of Labeling: vertices, largest hub id, largest distance, adds
LabN == 2
MaxHub == 1
MaxDist == 2
MaxAdds == 4
\* the client of KHeap: elements, largest key, calls
HeapN == 6
MaxKey == 2
MaxCalls == 9
\* the graphs of the relaxation guard: arcs per graph
RelaxArcs == 2
\* the client of Graph: calls of add_arc before finilize
GraphAdds == 3
\* the label files: numbers per file, and the largest value an uninitialized
\* size_t is taken to hold
FileTokens == 3
MaxJunk == 1

\* ------------------------------------------------------- program constants
none == -1
infty == 2147483647
invalid == -1
KWay == 4
\* std::numeric_limits<double>::max(), above every ratio of the model
DblMax == 1000000
\* ghl's default p
DefaultP == 1

\* ------------------------------------------------------------------ helpers
Side == {0, 1}
Not(f) == 1 - f
B2I(b) == IF b THEN 1 ELSE 0
Min(a, b) == IF b < a THEN b ELSE a
Range(s) == {s[i] : i \in 1..Len(s)}

\* ==================================================================== Graph
Arc(h, l, f, r) == [head |-> h, length |-> l, forward |-> f, reverse |-> r]

\* Graph::add_tmp_arc on a valid pair of endpoints
add_tmp_arc(tmp, u, v, w, undirected) ==
    tmp \o << [first |-> u, second |-> Arc(v, w, TRUE, undirected)],
               [first |-> v, second |-> Arc(u, w, undirected, TRUE)] >>

cmp_by_head(xx, yy) ==
    LET x == xx.second
        y == yy.second
    IN  IF xx.first # yy.first THEN xx.first < yy.first
        ELSE IF x.head # y.head THEN x.head < y.head
        ELSE x.length < y.length

cmp_by_direction(xx, yy) ==
    LET x == xx.second
        y == yy.second
    IN  IF xx.first # yy.first THEN xx.first < yy.first
        ELSE IF x.reverse # y.reverse THEN x.reverse = TRUE
        ELSE IF x.forward # y.forward THEN x.forward = FALSE
        ELSE IF x.head # y.head THEN x.head < y.head
        ELSE x.length < y.length

\* std::sort: the sorted permutation (insertion into a sorted prefix).
RECURSIVE InsertBy(_, _, _)
InsertBy(Less(_, _), x, s) ==
    IF s = << >> THEN << x >>
    ELSE IF Less(x, Head(s)) THEN << x >> \o s
    ELSE << Head(s) >> \o InsertBy(Less, x, Tail(s))

RECURSIVE SortBy(_, _)
SortBy(Less(_, _), s) ==
    IF s = << >> THEN << >>
    ELSE InsertBy(Less, s[Len(s)], SortBy(Less, SubSeq(s, 1, Len(s) - 1)))

\* init_arcs, "Remove redundant arcs": a is sorted by direction, i is the
\* last kept position, j the scanned one (both as sequence indices).
RECURSIVE RemoveRedundant(_, _, _)
RemoveRedundant(a, i, j) ==
    IF j > Len(a) THEN SubSeq(a, 1, i)
    ELSE LET ai == a[i].second
             aj == a[j].second
         IN  IF a[i].first = a[j].first /\ ai.head = aj.head
                /\ ai.forward = aj.forward /\ ai.reverse = aj.reverse
             THEN RemoveRedundant(a, i, j + 1)
             ELSE RemoveRedundant([a EXCEPT ![i + 1] = a[j]], i + 1, j + 1)

\* init_arcs, "Merge forward and reverse arcs into one bidirectional arc"
RECURSIVE MergeBidirectional(_, _, _)
MergeBidirectional(a, i, j) ==
    IF j > Len(a) THEN SubSeq(a, 1, i)
    ELSE LET ai == a[i].second
             aj == a[j].second
         IN  IF a[i].first = a[j].first /\ ai.head = aj.head /\ ai.length = aj.length
             THEN MergeBidirectional(
                      [a EXCEPT ![i].second.forward = ai.forward \/ aj.forward,
                                ![i].second.reverse = ai.reverse \/ aj.reverse],
                      i, j + 1)
             ELSE MergeBidirectional([a EXCEPT ![i + 1] = a[j]], i + 1, j + 1)

\* init_arcs, the last loop: a_begin / a_end as positions in arcs (arcs[j]
\* of the source is position j+1 here; 0 is the null pointer the vectors
\* are resized with).
RECURSIVE Ranges(_, _, _)
Ranges(a, j, r) ==
    IF j > Len(a) THEN r
    ELSE LET v  == a[j].first
             x  == a[j].second
             r1 == IF j = 1 \/ a[j].first # a[j - 1].first
                   THEN [r EXCEPT !.a_begin[0][v] = IF x.reverse THEN j ELSE @,
                                  !.a_begin[1][v] = IF x.forward THEN j ELSE @]
                   ELSE r
             r2 == IF j = Len(a) \/ a[j].first # a[j + 1].first
                   THEN [r1 EXCEPT !.a_end[0][v] = IF x.reverse THEN j + 1 ELSE @,
                                   !.a_end[1][v] = IF x.forward THEN j + 1 ELSE @]
                   ELSE r1
             r3 == IF j > 1 /\ a[j].first = a[j - 1].first
                   THEN [r2 EXCEPT !.a_end[0][v] =
                                       IF x.reverse # a[j - 1].second.reverse THEN j ELSE @,
                                   !.a_begin[1][v] =
                                       IF x.forward # a[j - 1].second.forward THEN j ELSE @]
                   ELSE r2
         IN  Ranges(a, j + 1, r3)

\* Graph::init_arcs.  resize(i+1) of an empty list creates one element
\* whose Arc is not initialized: junk stands for that element.
init_arcs(n, tmp, junk) ==
    LET s1 == SortBy(cmp_by_direction, tmp)
        a1 == IF s1 = << >> THEN << junk >> ELSE RemoveRedundant(s1, 1, 2)
        a2 == MergeBidirectional(SortBy(cmp_by_head, a1), 1, 2)
        a3 == SortBy(cmp_by_direction, a2)
        r0 == [a_begin |-> [f \in Side |-> [v \in 0..n - 1 |-> 0]],
               a_end   |-> [f \in Side |-> [v \in 0..n - 1 |-> 0]]]
        r  == Ranges(a3, 1, r0)
    IN  [n |-> n,
         arcs |-> [j \in 1..Len(a3) |-> a3[j].second],
         a_begin |-> r.a_begin,
         a_end |-> r.a_end]


\* Graph::begin / Graph::end and the arcs of the range [begin, end)
begin(gr, v, f) == gr.a_begin[f][v]
end(gr, v, f) == gr.a_end[f][v]
ArcRange(gr, v, f) ==
    [j \in 1..(end(gr, v, f) - begin(gr, v, f)) |-> gr.arcs[begin(gr, v, f) + j - 1]]

\* ==================================================================== KHeap
\* operator< on keys
KeyLess(a, b) == a[1] * b[2] < b[1] * a[2]
IntKey(d) == << d, 1 >>

\* KHeap(n)
KHeapNew(n) ==
    [size |-> 0,
     heap |-> [i \in 0..n - 1 |-> 0],
     heap_pos |-> [v \in 0..n - 1 |-> invalid],
     key |-> [v \in 0..n - 1 |-> IntKey(0)]]

swap(h, i, j) ==
    LET vi == h.heap[i]
        vj == h.heap[j]
    IN  [h EXCEPT !.heap_pos = [@ EXCEPT ![vi] = h.heap_pos[vj], ![vj] = h.heap_pos[vi]],
                  !.heap = [@ EXCEPT ![i] = vj, ![j] = vi]]

RECURSIVE KidLoop(_, _, _, _)
KidLoop(h, c0, j, m) ==
    IF j < KWay /\ c0 + j < h.size
    THEN KidLoop(h, c0, j + 1,
                 IF KeyLess(h.key[h.heap[c0 + j]], h.key[h.heap[c0 + m]]) THEN j ELSE m)
    ELSE c0 + m

\* (mutant) the first child, smallest or not
kidFirst(h, i) == i * KWay + 1

kid(h, i) == KidLoop(h, i * KWay + 1, 1, 0)

RECURSIVE FixDown(_, _)
FixDown(h, i) ==
    IF i * KWay + 1 < h.size /\ KeyLess(h.key[h.heap[kid(h, i)]], h.key[h.heap[i]])
    THEN FixDown(swap(h, i, kid(h, i)), kid(h, i))
    ELSE [h |-> h, i |-> i]

RECURSIVE FixUp(_, _)
FixUp(h, i) ==
    IF i > 0 /\ KeyLess(h.key[h.heap[i]], h.key[h.heap[(i - 1) \div KWay]])
    THEN FixUp(swap(h, i, (i - 1) \div KWay), (i - 1) \div KWay)
    ELSE h

\* (mutant) heap[i] moves down only
fixupDown(h, i) == FixDown(h, i).h

fixup(h, i) ==
    LET dn == FixDown(h, i)
    IN  FixUp(dn.h, dn.i)

empty(h) == h.size = 0
top(h) == h.heap[0]

\* (mutant) the new key is stored and the element stays where it is
KHeapUpdateInPlace(h, v, kk) ==
    LET h1 == IF h.heap_pos[v] = invalid
              THEN [h EXCEPT !.heap_pos[v] = h.size, !.size = h.size + 1, !.heap[h.size] = v]
              ELSE h
    IN  [h1 EXCEPT !.key[v] = kk]

KHeapUpdate(h, v, kk) ==
    LET h1 == IF h.heap_pos[v] = invalid
              THEN [h EXCEPT !.heap_pos[v] = h.size, !.size = h.size + 1, !.heap[h.size] = v]
              ELSE h
        h2 == [h1 EXCEPT !.key[v] = kk]
    IN  fixup(h2, h2.heap_pos[v])

\* (mutant) no early return for an element that is not in the heap
KHeapExtractAlways(h, v) ==
    LET h1  == [h EXCEPT !.size = h.size - 1]
        pos == h.heap_pos[v]
        h2  == IF pos < h1.size THEN fixup(swap(h1, pos, h1.size), pos) ELSE h1
    IN  [h2 EXCEPT !.heap_pos[v] = invalid]

KHeapExtract(h, v) ==
    IF h.heap_pos[v] = invalid THEN h
    ELSE LET h1  == [h EXCEPT !.size = h.size - 1]
             pos == h.heap_pos[v]
             h2  == IF pos < h1.size THEN fixup(swap(h1, pos, h1.size), pos) ELSE h1
         IN  [h2 EXCEPT !.heap_pos[v] = invalid]

\* pop(): the queue after the pop; the popped element is top(h)
KHeapPop(h) == KHeapExtract(h, top(h))

KHeapClear(h) ==
    [h EXCEPT !.heap_pos = [v \in DOMAIN h.heap_pos |->
                               IF \E i \in 0..h.size - 1 : h.heap[i] = v THEN invalid ELSE @[v]],
              !.size = 0]

\* ================================================================= Labeling
\* Labeling(n)
LabelingNew(n) ==
    [n |-> n,
     label_v |-> [v \in 0..n - 1 |-> [f \in Side |-> << >>]],
     label_d |-> [v \in 0..n - 1 |-> [f \in Side |-> << >>]]]

\* (mutant) the merge loop keeps the sum of the last match, not the minimum
RECURSIVE QueryLoopLast(_, _, _, _, _, _, _)
QueryLoopLast(lv1, ld1, lv2, ld2, i, j, r) ==
    IF i <= Len(lv1) /\ j <= Len(lv2)
    THEN IF lv1[i] = lv2[j]
         THEN QueryLoopLast(lv1, ld1, lv2, ld2, i + 1, j + 1, ld1[i] + ld2[j])
         ELSE IF lv1[i] < lv2[j]
         THEN QueryLoopLast(lv1, ld1, lv2, ld2, i + 1, j, r)
         ELSE QueryLoopLast(lv1, ld1, lv2, ld2, i, j + 1, r)
    ELSE r

\* Labeling::query: the merge loop at (i, j) with the minimum r so far.
\* The assert of the loop body is QueryOkLoop below.
RECURSIVE QueryLoop(_, _, _, _, _, _, _)
QueryLoop(lv1, ld1, lv2, ld2, i, j, r) ==
    IF i <= Len(lv1) /\ j <= Len(lv2)
    THEN IF lv1[i] = lv2[j]
         THEN QueryLoop(lv1, ld1, lv2, ld2, i + 1, j + 1, Min(r, ld1[i] + ld2[j]))
         ELSE IF lv1[i] < lv2[j]
         THEN QueryLoop(lv1, ld1, lv2, ld2, i + 1, j, r)
         ELSE QueryLoop(lv1, ld1, lv2, ld2, i, j + 1, r)
    ELSE r

query(l, u, v, f) ==
    QueryLoop(l.label_v[u][f], l.label_d[u][f],
              l.label_v[v][Not(f)], l.label_d[v][Not(f)], 1, 1, infty)

\* Labeling::query: TRUE iff no assert of the merge loop fails
RECURSIVE QueryOkLoop(_, _, _, _, _, _)
QueryOkLoop(lv1, ld1, lv2, ld2, i, j) ==
    IF i <= Len(lv1) /\ j <= Len(lv2)
    THEN IF lv1[i] = lv2[j]
         THEN ld1[i] < infty - ld2[j] /\ QueryOkLoop(lv1, ld1, lv2, ld2, i + 1, j + 1)
         ELSE IF lv1[i] < lv2[j]
         THEN QueryOkLoop(lv1, ld1, lv2, ld2, i + 1, j)
         ELSE QueryOkLoop(lv1, ld1, lv2, ld2, i, j + 1)
    ELSE TRUE

query_ok(l, u, v, f) ==
    QueryOkLoop(l.label_v[u][f], l.label_d[u][f],
                l.label_v[v][Not(f)], l.label_d[v][Not(f)], 1, 1)

\* (mutant) the hub is put at the front of the list
addFront(l, u, f, v, d) ==
    [l EXCEPT !.label_v[u][f] = << v >> \o @,
              !.label_d[u][f] = << d >> \o @]

\* Labeling::add
add(l, u, f, v, d) ==
    [l EXCEPT !.label_v[u][f] = Append(@, v),
              !.label_d[u][f] = Append(@, d)]

\* ---------------------------------------------------------- Labeling::read
\* A label file is the sequence of the numbers in it, separated by white
\* space and followed by a newline, as Labeling::write leaves them.  The
\* stream is [pos, ok]: the next number and !fail().
\* file >> x: a stream that has failed or is at the end of the file fails
\* (the sentry fails) and leaves x as it was
StreamGet(file, st) ==
    IF st.ok /\ st.pos <= Len(file)
    THEN [pos |-> st.pos + 1, ok |-> TRUE, got |-> TRUE, val |-> file[st.pos]]
    ELSE [pos |-> st.pos, ok |-> FALSE, got |-> FALSE, val |-> 0]

\* std::vector<int>::resize(s)
ResizeList(xs, s) == [k \in 1..s |-> IF k <= Len(xs) THEN xs[k] ELSE 0]

\* the loop "for (size_t i = 0; i < s; ++i)" on the lists lv, ld
RECURSIVE ReadPairs(_, _, _, _, _, _)
ReadPairs(file, st, lv, ld, i, s) ==
    IF i >= s THEN [st |-> st, lv |-> lv, ld |-> ld]
    ELSE LET a == StreamGet(file, st)
             b == StreamGet(file, a)
         IN  ReadPairs(file, b,
                       IF a.got THEN [lv EXCEPT ![i + 1] = a.val] ELSE lv,
                       IF b.got THEN [ld EXCEPT ![i + 1] = b.val] ELSE ld,
                       i + 1, s)

\* the loops over v and side, step k is v = k / 2, side = k % 2.  "size_t s;
\* file >> s;": when the extraction fails s is not initialized, junk is the
\* value it is read with
RECURSIVE ReadLists(_, _, _, _, _)
ReadLists(file, st, l, k, junk) ==
    IF k >= 2 * l.n THEN [st |-> st, l |-> l]
    ELSE LET v == k \div 2
             f == k % 2
             a == StreamGet(file, st)
             s == IF a.got THEN a.val ELSE junk
             p == ReadPairs(file, a, ResizeList(l.label_v[v][f], s),
                            ResizeList(l.label_d[v][f], s), 0, s)
         IN  ReadLists(file, p.st,
                       [l EXCEPT !.label_v[v][f] = p.lv, !.label_d[v][f] = p.ld],
                       k + 1, junk)

\* Labeling::read(filename, check_n): [l, r], r the value returned
read(l, file, check_n, junk) ==
    LET a  == StreamGet(file, [pos |-> 1, ok |-> TRUE])
        n1 == IF a.got THEN a.val ELSE l.n
        l1 == [n |-> n1,
               label_v |-> [v \in 0..n1 - 1 |->
                              IF v \in DOMAIN l.label_v THEN l.label_v[v]
                              ELSE [f \in Side |-> << >>]],
               label_d |-> [v \in 0..n1 - 1 |->
                              IF v \in DOMAIN l.label_d THEN l.label_d[v]
                              ELSE [f \in Side |-> << >>]]]
        x  == ReadLists(file, a, l1, 0, junk)
    IN  IF check_n # 0 /\ n1 # check_n
        THEN [l |-> [l EXCEPT !.n = n1], r |-> FALSE]
        ELSE [l |-> x.l, r |-> x.st.ok /\ x.st.pos > Len(file)]

\* Labeling::clear
LabelingClear(l) ==
    [l EXCEPT !.label_v = [v \in DOMAIN l.label_v |-> [f \in Side |-> << >>]],
              !.label_d = [v \in DOMAIN l.label_d |-> [f \in Side |-> << >>]]]

\* ================================================================ Dijkstra
\* Distance dd = d + a->length; assert(dd > d && dd < infty);
\* Distance is a 32-bit int.  When the sum is not a Distance the addition
\* is undefined: a build that evaluates the assert as written sees the
\* wrapped sum, a build that has simplified dd > d to a->length > 0
\* (folded) tests that and goes on with the wrapped sum.
Overflows(d, l) == (l > 0 /\ d > infty - l) \/ (l < 0 /\ d < ((0 - infty) - 1) - l)

\* d + l in 32 bits, two's complement
WrapSum(d, l) ==
    IF l > 0 /\ d > infty - l THEN ((d - infty) - 1) + ((l - infty) - 1)
    ELSE IF l < 0 /\ d < ((0 - infty) - 1) - l THEN ((d + infty) + 1) + ((l + infty) + 1)
    ELSE d + l

\* (mutant) the relaxation has no assert
RelaxUnchecked(d, l, folded) == [dd |-> WrapSum(d, l), ok |-> TRUE]

\* r.dd is the sum, r.ok the value of the asserted condition
Relax(d, l, folded) ==
    [dd |-> WrapSum(d, l),
     ok |-> /\ IF folded /\ Overflows(d, l) THEN l > 0 ELSE WrapSum(d, l) > d
            /\ WrapSum(d, l) < infty]

\* BasicDijkstra(g); abort records a failed assert, folded the build.
BasicDijkstraNew(n) ==
    [queue |-> KHeapNew(n),
     parent |-> [v \in 0..n - 1 |-> none],
     distance |-> [v \in 0..n - 1 |-> infty],
     is_dirty |-> [v \in 0..n - 1 |-> FALSE],
     dirty |-> << >>,
     abort |-> FALSE,
     folded |-> FALSE]

\* BasicDijkstra::update
update(dj, v, d, p) ==
    [dj EXCEPT !.distance[v] = d,
               !.parent[v] = p,
               !.queue = KHeapUpdate(dj.queue, v, IntKey(d)),
               !.dirty = IF dj.is_dirty[v] THEN @ ELSE Append(@, v),
               !.is_dirty[v] = TRUE]

\* (mutant) the queue and the dirty list are emptied, the arrays are kept
clearLists(dj) == [dj EXCEPT !.queue = KHeapClear(dj.queue), !.dirty = << >>]

\* BasicDijkstra::clear
clear(dj) ==
    [dj EXCEPT !.queue = KHeapClear(dj.queue),
               !.parent = [v \in DOMAIN @ |-> IF v \in Range(dj.dirty) THEN none ELSE @[v]],
               !.distance = [v \in DOMAIN @ |-> IF v \in Range(dj.dirty) THEN infty ELSE @[v]],
               !.is_dirty = [v \in DOMAIN @ |-> IF v \in Range(dj.dirty) THEN FALSE ELSE @[v]],
               !.dirty = << >>]

\* (mutant) only the first arc of u is relaxed
DijkstraArcsFirst(dj, as, k, u, d) ==
    IF Len(as) = 0 THEN dj
    ELSE LET dd == d + as[1].length
         IN  IF dd < dj.distance[as[1].head] THEN update(dj, as[1].head, dd, u) ELSE dj

\* Dijkstra::run, the loop over the arcs of u
RECURSIVE DijkstraArcs(_, _, _, _, _)
DijkstraArcs(dj, as, k, u, d) ==
    IF k > Len(as) \/ dj.abort THEN dj
    ELSE LET r  == Relax(d, as[k].length, dj.folded)
             dd == r.dd
         IN  IF ~r.ok THEN [dj EXCEPT !.abort = TRUE]
             ELSE DijkstraArcs(IF dd < dj.distance[as[k].head]
                               THEN update(dj, as[k].head, dd, u) ELSE dj,
                               as, k + 1, u, d)

\* Dijkstra::run, the loop over the queue
RECURSIVE DijkstraLoop(_, _, _)
DijkstraLoop(gr, dj, f) ==
    IF empty(dj.queue) \/ dj.abort THEN dj
    ELSE LET u  == top(dj.queue)
             d1 == [dj EXCEPT !.queue = KHeapPop(dj.queue)]
         IN  DijkstraLoop(gr, DijkstraArcs(d1, ArcRange(gr, u, f), 1, u, d1.distance[u]), f)

DijkstraRun(gr, dj, v, f) == DijkstraLoop(gr, update(clear(dj), v, 0, none), f)

\* =================================================================== Akiba
\* (mutant) the relaxation without the pruning test against the labeling
RECURSIVE AkibaArcsNoPrune(_, _, _, _, _, _, _)
AkibaArcsNoPrune(st, as, k, v, u, d, f) ==
    IF k > Len(as) \/ st.dj.abort THEN st
    ELSE LET dd == d + as[k].length
         IN  AkibaArcsNoPrune(IF dd < st.dj.distance[as[k].head]
                              THEN [st EXCEPT !.dj = update(st.dj, as[k].head, dd, none)]
                              ELSE st,
                              as, k + 1, v, u, d, f)

\* Akiba::iteration, the loop over the arcs of u; st = [dj, l]
RECURSIVE AkibaArcs(_, _, _, _, _, _, _)
AkibaArcs(st, as, k, v, u, d, f) ==
    IF k > Len(as) \/ st.dj.abort THEN st
    ELSE LET r  == Relax(d, as[k].length, st.dj.folded)
             dd == r.dd
         IN  IF ~r.ok THEN [st EXCEPT !.dj.abort = TRUE]
             ELSE IF dd < st.dj.distance[as[k].head] /\ ~query_ok(st.l, v, as[k].head, f)
             THEN [st EXCEPT !.dj.abort = TRUE]
             ELSE AkibaArcs(IF dd < st.dj.distance[as[k].head]
                               /\ dd < query(st.l, v, as[k].head, f)
                            THEN [st EXCEPT !.dj = update(st.dj, as[k].head, dd, none)]
                            ELSE st,
                            as, k + 1, v, u, d, f)

\* (mutant) the hub is added to the label of the side searched, not to the
\* opposite one
RECURSIVE AkibaLoopSameSide(_, _, _, _, _)
AkibaLoopSameSide(gr, st, i, v, f) ==
    IF empty(st.dj.queue) \/ st.dj.abort THEN st
    ELSE LET u  == top(st.dj.queue)
             d  == st.dj.distance[u]
             s1 == [dj |-> [st.dj EXCEPT !.queue = KHeapPop(st.dj.queue)],
                    l  |-> add(st.l, u, f, i, d)]
         IN  AkibaLoopSameSide(gr, AkibaArcs(s1, ArcRange(gr, u, f), 1, v, u, d, f), i, v, f)

RECURSIVE AkibaLoop(_, _, _, _, _)
AkibaLoop(gr, st, i, v, f) ==
    IF empty(st.dj.queue) \/ st.dj.abort THEN st
    ELSE LET u  == top(st.dj.queue)
             d  == st.dj.distance[u]
             s1 == [dj |-> [st.dj EXCEPT !.queue = KHeapPop(st.dj.queue)],
                    l  |-> add(st.l, u, Not(f), i, d)]
         IN  AkibaLoop(gr, AkibaArcs(s1, ArcRange(gr, u, f), 1, v, u, d, f), i, v, f)

\* Akiba::iteration(i, forward, order, labeling)
iteration(gr, dj, l, i, f, ord) ==
    LET v  == ord[i]
        c  == clear(dj)
        d0 == [c EXCEPT !.distance[v] = 0]
    IN  AkibaLoop(gr, [dj |-> update(d0, v, 0, none), l |-> l], i, v, f)


\* ================================================================= HHL::SP
\* HHL::SP::SP: dist[u][v] from one Dijkstra run per source; the engine is
\* reused from source to source.  cover starts all 0.
RECURSIVE SPDistRows(_, _, _, _)
SPDistRows(gr, dj, u, rows) ==
    IF u = gr.n THEN rows
    ELSE LET r == DijkstraRun(gr, dj, u, 1)
         IN  SPDistRows(gr, r, u + 1, [rows EXCEPT ![u] = r.distance])

SPNew(gr) ==
    [dist  |-> SPDistRows(gr, BasicDijkstraNew(gr.n), 0,
                          [u \in 0..gr.n - 1 |-> [v \in 0..gr.n - 1 |-> infty]]),
     cover |-> [u \in 0..gr.n - 1 |-> [v \in 0..gr.n - 1 |-> 0]]]

set_cover(sp, u, v) == [sp EXCEPT !.cover[u][v] = 1]
get_cover(sp, u, v, f) == IF f = 1 THEN sp.cover[u][v] = 1 ELSE sp.cover[v][u] = 1
get_distance(sp, u, v, f) == IF f = 1 THEN sp.dist[u][v] ELSE sp.dist[v][u]
SPClear(sp) == [sp EXCEPT !.cover = [u \in DOMAIN @ |-> [v \in DOMAIN @ |-> 0]]]

is_path(sp, u, v, w, length, f) ==
    /\ get_distance(sp, u, w, f) # infty
    /\ get_distance(sp, u, v, f) # infty
    /\ get_distance(sp, u, w, f) = get_distance(sp, u, v, f) + length

\* get_descendants: the scan of the arcs of d[i]; visited[x] is true
\* exactly for the members of d (set at each push, reset at the end).
RECURSIVE DescArcs(_, _, _, _, _, _, _)
DescArcs(sp, u, d, x, as, k, f) ==
    IF k > Len(as) THEN d
    ELSE DescArcs(sp, u,
                  IF /\ as[k].head \notin Range(d)
                     /\ ~get_cover(sp, u, as[k].head, f)
                     /\ is_path(sp, u, x, as[k].head, as[k].length, f)
                  THEN Append(d, as[k].head) ELSE d,
                  x, as, k + 1, f)

RECURSIVE DescLoop(_, _, _, _, _, _)
DescLoop(gr, sp, u, d, k, f) ==
    IF k > Len(d) THEN d
    ELSE DescLoop(gr, sp, u, DescArcs(sp, u, d, d[k], ArcRange(gr, d[k], f), 1, f), k + 1, f)

\* HHL::SP::get_descendants(u, v, d, forward)
get_descendants(gr, sp, u, v, f) ==
    IF get_cover(sp, u, v, f) \/ get_distance(sp, u, v, f) = infty THEN << >>
    ELSE DescLoop(gr, sp, u, << v >>, 1, f)

RECURSIVE AscArcs(_, _, _, _, _, _, _)
AscArcs(sp, u, d, x, as, k, f) ==
    IF k > Len(as) THEN d
    ELSE AscArcs(sp, u,
                 IF /\ as[k].head \notin Range(d)
                    /\ is_path(sp, u, as[k].head, x, as[k].length, f)
                 THEN Append(d, as[k].head) ELSE d,
                 x, as, k + 1, f)

RECURSIVE AscLoop(_, _, _, _, _, _)
AscLoop(gr, sp, u, d, k, f) ==
    IF k > Len(d) THEN d
    ELSE AscLoop(gr, sp, u, AscArcs(sp, u, d, d[k], ArcRange(gr, d[k], Not(f)), 1, f), k + 1, f)

\* HHL::SP::get_ascendants(u, v, d, forward)
get_ascendants(gr, sp, u, v, f) ==
    IF get_cover(sp, u, v, f) \/ get_distance(sp, u, v, f) = infty THEN << >>
    ELSE AscLoop(gr, sp, u, << v >>, 1, f)

\* ====================================================================== HHL
\* a double n / d with integer n, d as an exact rational
Rat(n, d) == IF d < 0 THEN << 0 - n, 0 - d >> ELSE << n, d >>

\* HHL::weight
weight(h, v, type) ==
    IF type = 0 THEN Rat(1, h.cover_size[v]) ELSE Rat(h.sp_size[v], h.cover_size[v])

\* HHL(g, num_threads)
HHLNew(gr) ==
    [sp |-> SPNew(gr),
     queue |-> KHeapNew(gr.n),
     selected |-> [v \in 0..gr.n - 1 |-> FALSE],
     cover_size |-> [v \in 0..gr.n - 1 |-> 0],
     sp_size |-> [v \in 0..gr.n - 1 |-> 0],
     cover_diff_pt |-> [t \in 0..NumThreads - 1 |-> [v \in 0..gr.n - 1 |-> 0]]]

\* HHL::run, "Calculate initial cover[v] and sp_size[v]": the task of v,
\* its inner loop at u
RECURSIVE InitCountU(_, _, _, _)
InitCountU(gr, h, v, u) ==
    IF u = gr.n THEN h
    ELSE LET d == get_descendants(gr, h.sp, u, v, 1)
         IN  InitCountU(gr,
                        [h EXCEPT !.cover_size[v] = @ + Len(d),
                                  !.sp_size[v] = IF u = v THEN @ + Len(d) ELSE @],
                        v, u + 1)

RECURSIVE InitCount(_, _, _)
InitCount(gr, h, v) ==
    IF v = gr.n THEN h
    ELSE LET h1 == InitCountU(gr, h, v, 0)
             d  == get_descendants(gr, h1.sp, v, v, 0)
         IN  InitCount(gr, [h1 EXCEPT !.sp_size[v] = @ + Len(d)], v + 1)

\* "Initialize the greedy selection queue"
RECURSIVE QueueInit(_, _, _)
QueueInit(h, v, type) ==
    IF v = Cardinality(DOMAIN h.selected) THEN h
    ELSE QueueInit([h EXCEPT !.queue = KHeapUpdate(@, v, weight(h, v, type))], v + 1, type)

\* (mutant) the hub is stored with the distance of the opposite direction
RECURSIVE AddHubsOtherWay(_, _, _, _, _, _, _)
AddHubsOtherWay(l, sp, d, k, w, wi, f) ==
    IF k > Len(d) THEN l
    ELSE AddHubsOtherWay(add(l, d[k], Not(f), wi, get_distance(sp, d[k], w, f)),
                         sp, d, k + 1, w, wi, f)

\* "Put w into labels of reachable vertices": the adds of one side
RECURSIVE AddHubs(_, _, _, _, _, _, _)
AddHubs(l, sp, d, k, w, wi, f) ==
    IF k > Len(d) THEN l
    ELSE AddHubs(add(l, d[k], Not(f), wi, get_distance(sp, d[k], w, Not(f))),
                 sp, d, k + 1, w, wi, f)

\* "Iterate over all v--d[i] shortest paths and update cover": the task of
\* v in the forward phase at d[k].  r.sp is the table, r.inc the vertices
\* a[j] whose cover_diff_pt[thread] entry the task has incremented so far.
RECURSIVE CoverPaths(_, _, _, _, _)
CoverPaths(gr, r, v, d, k) ==
    IF k > Len(d) THEN r
    ELSE LET a == get_ascendants(gr, r.sp, v, d[k], 1)
         IN  CoverPaths(gr, [sp |-> set_cover(r.sp, v, d[k]), inc |-> r.inc \o a], v, d, k + 1)

\* "Update cover[v] and sp_size[v]": the tasks of one phase, v = 0 .. n-1;
\* incs[v] lists the increments task v makes to its thread's cover_diff_pt
\* (mutant) sp_size is lowered for the selected vertex only
RECURSIVE UpdatePhaseSelected(_, _, _, _, _, _)
UpdatePhaseSelected(gr, h, w, f, v, incs) ==
    IF v = gr.n THEN [h |-> h, incs |-> incs]
    ELSE LET d  == get_descendants(gr, h.sp, v, w, f)
             h1 == IF v = w THEN [h EXCEPT !.sp_size[v] = @ - Len(d)] ELSE h
             r  == IF f = 1 THEN CoverPaths(gr, [sp |-> h1.sp, inc |-> << >>], v, d, 1)
                   ELSE [sp |-> h1.sp, inc |-> << >>]
         IN  UpdatePhaseSelected(gr, [h1 EXCEPT !.sp = r.sp], w, f, v + 1,
                                 [incs EXCEPT ![v] = r.inc])

RECURSIVE UpdatePhase(_, _, _, _, _, _)
UpdatePhase(gr, h, w, f, v, incs) ==
    IF v = gr.n THEN [h |-> h, incs |-> incs]
    ELSE LET d  == get_descendants(gr, h.sp, v, w, f)
             h1 == [h EXCEPT !.sp_size[v] = @ - Len(d)]
             r  == IF f = 1 THEN CoverPaths(gr, [sp |-> h1.sp, inc |-> << >>], v, d, 1)
                   ELSE [sp |-> h1.sp, inc |-> << >>]
         IN  UpdatePhase(gr, [h1 EXCEPT !.sp = r.sp], w, f, v + 1, [incs EXCEPT ![v] = r.inc])

\* ++cover_diff_pt[omp_get_thread_num()][a[j]] for the increments of every
\* task, task v being run by thread asg[v]
RECURSIVE IncDiff(_, _, _, _)
IncDiff(cd, t, a, j) ==
    IF j > Len(a) THEN cd
    ELSE IncDiff([cd EXCEPT ![t][a[j]] = @ + 1], t, a, j + 1)

RECURSIVE ApplyIncs(_, _, _, _)
ApplyIncs(cd, incs, asg, v) ==
    IF v \notin DOMAIN incs THEN cd
    ELSE ApplyIncs(IncDiff(cd, asg[v], incs[v], 1), incs, asg, v + 1)

\* "Collect cover[v] updates from all threads"
\* (mutant) the differences of thread 0 are collected, the others are not
CollectDiffFirst(h, t) ==
    [h EXCEPT !.cover_size = [v \in DOMAIN @ |-> @[v] - h.cover_diff_pt[0][v]],
              !.cover_diff_pt[0] = [v \in DOMAIN @ |-> 0]]

\* (mutant) the difference of a selected vertex is collected and not reset
RECURSIVE CollectDiffKeep(_, _)
CollectDiffKeep(h, t) ==
    IF t = NumThreads THEN h
    ELSE CollectDiffKeep(
             [h EXCEPT !.cover_size = [v \in DOMAIN @ |-> @[v] - h.cover_diff_pt[t][v]],
                       !.cover_diff_pt[t] = [v \in DOMAIN @ |-> IF h.selected[v] THEN @[v] ELSE 0]],
             t + 1)

RECURSIVE CollectDiff(_, _)
CollectDiff(h, t) ==
    IF t = NumThreads THEN h
    ELSE CollectDiff([h EXCEPT !.cover_size = [v \in DOMAIN @ |-> @[v] - h.cover_diff_pt[t][v]],
                               !.cover_diff_pt[t] = [v \in DOMAIN @ |-> 0]],
                     t + 1)

\* "Update queue"
\* (mutant) the selected vertices are put back into the queue as well
RECURSIVE QueueUpdateAll(_, _, _)
QueueUpdateAll(h, v, type) ==
    IF v = Cardinality(DOMAIN h.selected) THEN h
    ELSE QueueUpdateAll([h EXCEPT !.queue = KHeapUpdate(@, v, weight(h, v, type))], v + 1, type)

RECURSIVE QueueUpdate(_, _, _)
QueueUpdate(h, v, type) ==
    IF v = Cardinality(DOMAIN h.selected) THEN h
    ELSE QueueUpdate(IF ~h.selected[v]
                     THEN [h EXCEPT !.queue = KHeapUpdate(@, v, weight(h, v, type))]
                     ELSE h,
                     v + 1, type)

\* ================================================================ UHHL::SP
\* USPDijkstra(g): a BasicDijkstra with hops
USPDijkstraNew(n) ==
    [queue |-> KHeapNew(n),
     parent |-> [v \in 0..n - 1 |-> none],
     distance |-> [v \in 0..n - 1 |-> infty],
     is_dirty |-> [v \in 0..n - 1 |-> FALSE],
     dirty |-> << >>,
     abort |-> FALSE,
     folded |-> FALSE,
     hops |-> [v \in 0..n - 1 |-> 0]]

uspd_update(dj, v, dd, h, u) == update([dj EXCEPT !.hops[v] = h], v, dd, u)

uspd_clear(dj) ==
    clear([dj EXCEPT !.hops = [v \in DOMAIN @ |-> IF v \in Range(dj.dirty) THEN 0 ELSE @[v]]])

\* USPDijkstra::run, the loop over the arcs of u
RECURSIVE USPArcs(_, _, _, _, _)
USPArcs(dj, as, k, u, d) ==
    IF k > Len(as) \/ dj.abort THEN dj
    ELSE LET r  == Relax(d, as[k].length, dj.folded)
             dd == r.dd
             x  == as[k].head
         IN  IF ~r.ok THEN [dj EXCEPT !.abort = TRUE]
             ELSE USPArcs(IF \/ dd < dj.distance[x]
                             \/ (dd = dj.distance[x] /\ dj.hops[u] + 1 < dj.hops[x])
                             \/ (dd = dj.distance[x] /\ dj.hops[u] + 1 = dj.hops[x]
                                  /\ u < dj.parent[x])
                          THEN uspd_update(dj, x, dd, dj.hops[u] + 1, u) ELSE dj,
                          as, k + 1, u, d)

RECURSIVE USPLoop(_, _, _)
USPLoop(gr, dj, f) ==
    IF empty(dj.queue) \/ dj.abort THEN dj
    ELSE LET u  == top(dj.queue)
             d1 == [dj EXCEPT !.queue = KHeapPop(dj.queue)]
         IN  USPLoop(gr, USPArcs(d1, ArcRange(gr, u, f), 1, u, d1.distance[u]), f)

\* USPDijkstra::run(v, forward)
USPRun(gr, dj, v, f) == USPLoop(gr, uspd_update(uspd_clear(dj), v, 0, 0, none), f)

\* UHHL::SP::get_parent, is_path
get_parent(sp, u, v, f) == sp.parent[f][u][v]
usp_is_path(sp, u, v, w, f) == v = get_parent(sp, u, w, f)

\* UHHL::SP::get_descendants: the scan of the arcs of d[i]
RECURSIVE USPDescArcs(_, _, _, _, _, _, _)
USPDescArcs(sp, u, d, x, as, k, f) ==
    IF k > Len(as) THEN d
    ELSE USPDescArcs(sp, u,
                     IF /\ as[k].head \notin Range(d)
                        /\ ~get_cover(sp, u, as[k].head, f)
                        /\ usp_is_path(sp, u, x, as[k].head, f)
                     THEN Append(d, as[k].head) ELSE d,
                     x, as, k + 1, f)

RECURSIVE USPDescLoop(_, _, _, _, _, _)
USPDescLoop(gr, sp, u, d, k, f) ==
    IF k > Len(d) THEN d
    ELSE USPDescLoop(gr, sp, u, USPDescArcs(sp, u, d, d[k], ArcRange(gr, d[k], f), 1, f), k + 1, f)

\* UHHL::SP::get_descendants(u, v, d, forward)
usp_get_descendants(gr, sp, u, v, f) ==
    IF get_cover(sp, u, v, f) \/ (u # v /\ get_parent(sp, u, v, f) = none) THEN << >>
    ELSE USPDescLoop(gr, sp, u, << v >>, 1, f)

\* UHHL::SP::SP, "Build distance table and forward SPT"; the engine is
\* reused from source to source
RECURSIVE USPRows(_, _, _, _)
USPRows(gr, dj, u, sp) ==
    IF u = gr.n THEN sp
    ELSE LET r == USPRun(gr, dj, u, 1)
         IN  USPRows(gr, r, u + 1,
                     [sp EXCEPT !.dist[u] = r.distance, !.parent[1][u] = r.parent,
                                !.abort = @ \/ r.abort])

\* "Build reverse SPT from forward SPT": parent[false][d[i]][u] = a->head
\* for the descendants d of a->head, arc a being the k-th arc of u
\* (mutant) the entry is written at [u][d[i]]
RECURSIVE SetReverseParentOfRoot(_, _, _, _, _)
SetReverseParentOfRoot(sp, d, j, u, x) ==
    IF j > Len(d) THEN sp
    ELSE SetReverseParentOfRoot([sp EXCEPT !.parent[0][u][d[j]] = x], d, j + 1, u, x)

RECURSIVE SetReverseParent(_, _, _, _, _)
SetReverseParent(sp, d, j, u, x) ==
    IF j > Len(d) THEN sp
    ELSE SetReverseParent([sp EXCEPT !.parent[0][d[j]][u] = x], d, j + 1, u, x)

RECURSIVE ReverseSPTArcs(_, _, _, _, _)
ReverseSPTArcs(gr, sp, u, as, k) ==
    IF k > Len(as) THEN sp
    ELSE ReverseSPTArcs(gr,
             IF sp.parent[1][u][as[k].head] # u THEN sp
             ELSE SetReverseParent(sp, usp_get_descendants(gr, sp, u, as[k].head, 1), 1,
                                   u, as[k].head),
             u, as, k + 1)

RECURSIVE ReverseSPT(_, _, _)
ReverseSPT(gr, sp, u) ==
    IF u = gr.n THEN sp
    ELSE ReverseSPT(gr, ReverseSPTArcs(gr, sp, u, ArcRange(gr, u, 1), 1), u + 1)

\* UHHL::SP::SP(g, num_threads); abort records a failed assert of a run
USPNew(gr) ==
    ReverseSPT(gr,
        USPRows(gr, USPDijkstraNew(gr.n), 0,
                [dist   |-> [u \in 0..gr.n - 1 |-> [v \in 0..gr.n - 1 |-> infty]],
                 cover  |-> [u \in 0..gr.n - 1 |-> [v \in 0..gr.n - 1 |-> 0]],
                 parent |-> [f \in Side |-> [u \in 0..gr.n - 1 |-> [v \in 0..gr.n - 1 |-> none]]],
                 abort  |-> FALSE]),
        0)

\* ===================================================================== UHHL
\* UHHL(g, num_threads)
UHHLNew(gr) ==
    [sp |-> USPNew(gr),
     queue |-> KHeapNew(gr.n),
     selected |-> [v \in 0..gr.n - 1 |-> FALSE],
     cover_size |-> [v \in 0..gr.n - 1 |-> 0],
     sp_size |-> [v \in 0..gr.n - 1 |-> 0],
     cover_diff_pt |-> [t \in 0..NumThreads - 1 |-> [v \in 0..gr.n - 1 |-> 0]],
     subtree_pt |-> [t \in 0..NumThreads - 1 |-> [v \in 0..gr.n - 1 |-> 0]]]

\* UHHL::apply_cover_diff
RECURSIVE apply_cover_diff(_, _)
apply_cover_diff(h, t) ==
    IF t = NumThreads THEN h
    ELSE apply_cover_diff([h EXCEPT !.cover_size = [v \in DOMAIN @ |-> @[v] + h.cover_diff_pt[t][v]],
                                    !.cover_diff_pt[t] = [v \in DOMAIN @ |-> 0]],
                          t + 1)

\* (mutant) the size of a subtree is not added to that of its parent
RECURSIVE InitSubtreeLeaf(_, _, _, _, _)
InitSubtreeLeaf(sp, st, v, d, i) ==
    IF i = 0 THEN st
    ELSE InitSubtreeLeaf(sp, [cd |-> [st.cd EXCEPT ![d[i]] = @ + 1], sub |-> st.sub], v, d, i - 1)

\* UHHL::run, the subtree loop of the initial count, i = d.size() .. 1, on
\* the arrays of the thread running the task: st = [cd, sub]
RECURSIVE InitSubtree(_, _, _, _, _)
InitSubtree(sp, st, v, d, i) ==
    IF i = 0 THEN st
    ELSE LET q  == d[i]
             s1 == st.sub[q] + 1
             c1 == [st.cd EXCEPT ![q] = @ + s1]
             b1 == [st.sub EXCEPT ![q] = s1]
             b2 == IF i - 1 > 0 THEN [b1 EXCEPT ![get_parent(sp, v, q, 1)] = @ + b1[q]] ELSE b1
         IN  InitSubtree(sp, [cd |-> c1, sub |-> [b2 EXCEPT ![q] = 0]], v, d, i - 1)

\* "Calculate initial cover_size[v] and sp_size[v]": the tasks v = 0 .. n-1,
\* task v run by thread asg[v]
RECURSIVE UInitCount(_, _, _, _)
UInitCount(gr, h, asg, v) ==
    IF v = gr.n THEN h
    ELSE LET t  == asg[v]
             d  == usp_get_descendants(gr, h.sp, v, v, 1)
             st == InitSubtree(h.sp, [cd |-> h.cover_diff_pt[t], sub |-> h.subtree_pt[t]],
                               v, d, Len(d))
             r  == usp_get_descendants(gr, h.sp, v, v, 0)
         IN  UInitCount(gr,
                        [h EXCEPT !.sp_size[v] = @ + Len(d) + Len(r),
                                  !.cover_diff_pt[t] = st.cd,
                                  !.subtree_pt[t] = st.sub],
                        asg, v + 1)

\* the subtree loop of the cover update, i = d.size() .. 1: st = [sp, cd, sub]
RECURSIVE UpdateSubtree(_, _, _, _, _)
UpdateSubtree(st, v, d, i, f) ==
    IF i = 0 THEN st
    ELSE LET q  == d[i]
             s1 == st.sub[q] + 1
             c1 == IF i - 1 > 0 \/ f = 1 THEN [st.cd EXCEPT ![q] = @ - s1] ELSE st.cd
             b1 == [st.sub EXCEPT ![q] = s1]
             b2 == IF i - 1 > 0 THEN [b1 EXCEPT ![get_parent(st.sp, v, q, f)] = @ + b1[q]] ELSE b1
         IN  UpdateSubtree([sp  |-> IF f = 1 THEN set_cover(st.sp, v, q) ELSE st.sp,
                            cd  |-> c1,
                            sub |-> [b2 EXCEPT ![q] = 0]],
                           v, d, i - 1, f)

\* the tasks of v with a non-empty d: the others touch no per-thread array
Active(ds) == {v \in DOMAIN ds : ds[v] # << >>}

\* "Update cover[v] and sp_size[v]": the tasks v = 0 .. n-1 of one phase.
\* ds[v] is the d of task v: get_descendants(v, w, d, forward) reads row v
\* of cover in the forward phase, which no other task writes, and column v
\* in the reverse phase, in which no task writes.  Task v is run by asg[v].
RECURSIVE UPhase(_, _, _, _, _)
UPhase(h, f, ds, asg, v) ==
    IF v \notin DOMAIN ds THEN h
    ELSE IF ds[v] = << >> THEN UPhase(h, f, ds, asg, v + 1)
    ELSE LET t  == asg[v]
             st == UpdateSubtree([sp |-> h.sp, cd |-> h.cover_diff_pt[t], sub |-> h.subtree_pt[t]],
                                 v, ds[v], Len(ds[v]), f)
         IN  UPhase([h EXCEPT !.sp_size[v] = @ - Len(ds[v]),
                              !.sp = st.sp,
                              !.cover_diff_pt[t] = st.cd,
                              !.subtree_pt[t] = st.sub],
                    f, ds, asg, v + 1)

\* ====================================================================== GHL
\* GHL::SP has the distance table, the cover table, is_path, set_cover,
\* get_distance and clear of HHL::SP; its traversals do not look at cover.
is_covered(sp, u, v, f) == IF f = 1 THEN sp.cover[u][v] = 1 ELSE sp.cover[v][u] = 1

RECURSIVE GHLDescArcs(_, _, _, _, _, _, _)
GHLDescArcs(sp, u, d, x, as, k, f) ==
    IF k > Len(as) THEN d
    ELSE GHLDescArcs(sp, u,
                     IF /\ as[k].head \notin Range(d)
                        /\ is_path(sp, u, x, as[k].head, as[k].length, f)
                     THEN Append(d, as[k].head) ELSE d,
                     x, as, k + 1, f)

RECURSIVE GHLDescLoop(_, _, _, _, _, _)
GHLDescLoop(gr, sp, u, d, k, f) ==
    IF k > Len(d) THEN d
    ELSE GHLDescLoop(gr, sp, u, GHLDescArcs(sp, u, d, d[k], ArcRange(gr, d[k], f), 1, f), k + 1, f)

\* GHL::SP::get_descendants(u, v, d, forward)
ghl_get_descendants(gr, sp, u, v, f) ==
    IF get_distance(sp, u, v, f) = infty THEN << >>
    ELSE GHLDescLoop(gr, sp, u, << v >>, 1, f)

\* ProxyLabeling: px = [l, inlabel], l the labeling it points to
ProxyLabelingNew(n) ==
    [v \in 0..n - 1 |-> [f \in Side |-> [u \in 0..n - 1 |-> FALSE]]]

\* ProxyLabeling::add
proxy_add(px, u, f, v, d) ==
    IF ~px.inlabel[v][f][u]
    THEN [l |-> add(px.l, u, f, v, d), inlabel |-> [px.inlabel EXCEPT ![v][f][u] = TRUE]]
    ELSE px

get_size(px, u, f) == Len(px.l.label_v[u][f])
is_in_label(px, u, f, v) == px.inlabel[v][f][u]

\* ProxyLabeling::set_labeling
set_labeling(px, l) ==
    [l |-> LabelingClear(l),
     inlabel |-> [v \in DOMAIN px.inlabel |-> [f \in Side |-> [u \in DOMAIN px.inlabel |-> FALSE]]]]

\* pow(b, p) for the whole exponents of the model
RECURSIVE Pow(_, _)
Pow(b, e) == IF e = 0 THEN 1 ELSE b * Pow(b, e - 1)

\* AMDS::weight
amds_weight(px, u, f, p) == Pow(get_size(px, u, f) + 1, p) - Pow(get_size(px, u, f), p)

\* the double of a quotient of integers: the fraction in lowest terms
RECURSIVE Gcd(_, _)
Gcd(a, b) == IF b = 0 THEN a ELSE Gcd(b, a % b)
Quot(a, b) == IF a = 0 /\ b # 0 THEN << 0, 1 >> ELSE << a \div Gcd(a, b), b \div Gcd(a, b) >>

\* x / y and 1.0 / x on doubles
Div(x, y) == Quot(x[1] * y[2], x[2] * y[1])
Inv(x) == Quot(x[2], x[1])

\* x - y > std::numeric_limits<double>::epsilon(): the values compared are
\* quotients of integers below DblMax, so a difference above 0 is above it
Exceeds(x, y) == KeyLess(y, x)

\* AMDS::ratio
ratio(edges, vertices_weight) ==
    IF edges = 0 THEN << 0, 1 >>
    ELSE IF vertices_weight = 0 THEN << DblMax, 1 >>
    ELSE Quot(edges, vertices_weight)

\* AMDS(g, sp, l): a = [degree, inads].  The queue is left out of the
\* object: run starts with queue.clear() and nothing reads the queue of a
\* finished run, so each run works on a queue of its own.  run adds queue,
\* edges, vertices_weight and abort (a failed assert).
AMDSNew(n) ==
    [degree |-> [f \in Side |-> [u \in 0..n - 1 |-> 0]],
     inads  |-> [f \in Side |-> [u \in 0..n - 1 |-> FALSE]]]

\* AMDS::run, "Determine the initial center graph": step k is u = k / 2,
\* forward = k % 2
RECURSIVE AMDSCenter(_, _, _, _, _, _, _)
AMDSCenter(gr, sp, px, a, v, p, k) ==
    IF k = 2 * gr.n THEN a
    ELSE LET u    == k \div 2
             f    == k % 2
             desc == ghl_get_descendants(gr, sp, u, v, f)
             d    == Cardinality({j \in 1..Len(desc) : ~is_covered(sp, u, desc[j], f)})
             inq  == d > 0 /\ ~is_in_label(px, u, f, v)
             uw   == amds_weight(px, u, f, p)
         IN  AMDSCenter(gr, sp, px,
                 [a EXCEPT !.degree[f][u] = d,
                           !.inads[f][u] = d > 0,
                           !.edges = IF f = 1 THEN @ + d ELSE @,
                           !.queue = IF inq THEN KHeapUpdate(@, u + gr.n * f, Rat(d, uw)) ELSE @,
                           !.vertices_weight = IF inq THEN @ + uw ELSE @],
                 v, p, k + 1)

\* AMDS::run, the loop over the descendants of the removed u[forward]
RECURSIVE AMDSRemove(_, _, _, _, _, _, _, _, _)
AMDSRemove(sp, px, a, v, p, u, f, desc, j) ==
    IF j > Len(desc) \/ a.abort THEN a
    ELSE LET w  == desc[j]
             nf == Not(f)
             n  == Cardinality(DOMAIN a.degree[0])
         IN  IF ~a.inads[nf][w] \/ is_covered(sp, u, w, f)
             THEN AMDSRemove(sp, px, a, v, p, u, f, desc, j + 1)
             ELSE IF ~(a.degree[nf][w] > 0) THEN [a EXCEPT !.abort = TRUE]
             ELSE LET dg == a.degree[nf][w] - 1
                      ww == amds_weight(px, w, nf, p)
                      a1 == [a EXCEPT !.degree[nf][w] = dg,
                                      !.inads[nf][w] = IF dg = 0 THEN FALSE ELSE @]
                      a2 == IF is_in_label(px, w, nf, v) THEN a1
                            ELSE IF dg = 0
                            THEN [a1 EXCEPT !.queue = KHeapExtract(@, w + n * nf),
                                            !.vertices_weight = @ - ww]
                            ELSE [a1 EXCEPT !.queue = KHeapUpdate(@, w + n * nf, Rat(dg, ww))]
                  IN  AMDSRemove(sp, px, a2, v, p, u, f, desc, j + 1)

\* AMDS::run, "AMDS loop: iteratively remove smallest-weight vertex"
RECURSIVE AMDSLoop(_, _, _, _, _, _, _, _, _)
AMDSLoop(gr, sp, px, a, v, p, r, best_r, limit) ==
    IF ~(~empty(a.queue) /\ KeyLess(r, limit)) \/ a.abort THEN [a |-> a, r |-> best_r]
    ELSE LET e  == top(a.queue)
             f  == B2I(e >= gr.n)
             u  == IF e >= gr.n THEN e - gr.n ELSE e
             a1 == [a EXCEPT !.queue = KHeapPop(@),
                             !.inads[f][u] = FALSE,
                             !.edges = @ - a.degree[f][u],
                             !.vertices_weight = @ - amds_weight(px, u, f, p)]
             a2 == AMDSRemove(sp, px, a1, v, p, u, f, ghl_get_descendants(gr, sp, u, v, f), 1)
             r2 == ratio(a2.edges, a2.vertices_weight)
         IN  AMDSLoop(gr, sp, px, a2, v, p, r2, IF KeyLess(best_r, r2) THEN r2 ELSE best_r, limit)

\* AMDS::run(v, p, limit): [a, r], r the returned best_r
AMDSRun(gr, sp, px, a, v, p, limit) ==
    LET a0 == AMDSCenter(gr, sp, px,
                         [queue |-> KHeapNew(2 * gr.n), degree |-> a.degree, inads |-> a.inads,
                          edges |-> 0, vertices_weight |-> 0, abort |-> FALSE],
                         v, p, 0)
        r  == ratio(a0.edges, a0.vertices_weight)
    IN  AMDSLoop(gr, sp, px, a0, v, p, r, r, limit)

\* GHL(g, num_threads)
GHLNew(gr) ==
    [sp      |-> SPNew(gr),
     queue   |-> KHeapNew(gr.n),
     proxy   |-> ProxyLabelingNew(gr.n),
     density |-> [v \in 0..gr.n - 1 |-> << 0, 1 >>],
     amds_pt |-> [t \in 0..NumThreads - 1 |-> AMDSNew(gr.n)],
     \* run's local v of the last iteration, and whether it was promoted
     v        |-> none,
     promoted |-> FALSE,
     abort    |-> FALSE]

\* the AMDS object a run leaves behind
AMDSOf(a) == [degree |-> a.degree, inads |-> a.inads]

\* GHL::increase_cover, the loop over the descendants w of v seen from u
RECURSIVE CoverDescendants(_, _, _, _, _)
CoverDescendants(sp, a, u, desc, j) ==
    IF j > Len(desc) THEN sp
    ELSE CoverDescendants(IF a.inads[0][desc[j]] THEN set_cover(sp, u, desc[j]) ELSE sp,
                          a, u, desc, j + 1)

\* (mutant) v is added to the forward labels only
RECURSIVE increase_coverForward(_, _, _, _, _)
increase_coverForward(gr, st, v, a, k) ==
    IF k = 2 * gr.n THEN st
    ELSE LET f == k \div gr.n
             u == k % gr.n
         IN  IF ~a.inads[f][u] \/ f = 0 THEN increase_coverForward(gr, st, v, a, k + 1)
             ELSE increase_coverForward(gr,
                      [sp |-> CoverDescendants(st.sp, a, u,
                                               ghl_get_descendants(gr, st.sp, u, v, 1), 1),
                       px |-> proxy_add(st.px, u, f, v, get_distance(st.sp, u, v, f))],
                      v, a, k + 1)

\* GHL::increase_cover(v, amds): step k is forward = k / n, u = k % n;
\* st = [sp, px]
RECURSIVE increase_cover(_, _, _, _, _)
increase_cover(gr, st, v, a, k) ==
    IF k = 2 * gr.n THEN st
    ELSE LET f == k \div gr.n
             u == k % gr.n
         IN  IF ~a.inads[f][u] THEN increase_cover(gr, st, v, a, k + 1)
             ELSE increase_cover(gr,
                      [sp |-> IF f = 1
                              THEN CoverDescendants(st.sp, a, u,
                                                    ghl_get_descendants(gr, st.sp, u, v, 1), 1)
                              ELSE st.sp,
                       px |-> proxy_add(st.px, u, f, v, get_distance(st.sp, u, v, f))],
                      v, a, k + 1)

\* GHL::run, "Calculate initial density[v]": the tasks in the order ord in
\* which they pass the critical section, task v on thread asg[v]
\* xs[v] is what amds_pt[t].run(v, p) returns and leaves: run overwrites
\* every degree and inads entry, so it is the same on every thread
RECURSIVE InitDensity(_, _, _, _, _)
InitDensity(gh, xs, ord, asg, k) ==
    IF k > Len(ord) \/ gh.abort THEN gh
    ELSE LET v == ord[k]
             t == asg[v]
         IN  InitDensity([gh EXCEPT !.amds_pt[t] = AMDSOf(xs[v].a),
                                    !.density[v] = xs[v].r,
                                    !.queue = KHeapUpdate(@, v, Inv(xs[v].r)),
                                    !.abort = xs[v].a.abort],
                         xs, ord, asg, k + 1)

\* "Multy-thread version", the pops: top[i].second = (queue.pop(), i)
RECURSIVE PopTops(_, _, _)
PopTops(q, tops, k) ==
    IF k = NumThreads \/ empty(q) THEN [queue |-> q, top |-> tops]
    ELSE PopTops(KHeapPop(q), [tops EXCEPT ![k + 1] = [first |-> << 0, 1 >>, v |-> top(q), i |-> k]],
                 k + 1)

\* the parallel region: thread i runs amds_pt[i] on its vertex
RECURSIVE RunTops(_, _, _, _, _, _)
RunTops(gr, gh, px, al, p, r) ==
    IF r.k > NumThreads THEN r
    ELSE IF r.top[r.k].v = none THEN RunTops(gr, gh, px, al, p, [r EXCEPT !.k = @ + 1])
    ELSE LET v == r.top[r.k].v
             x == AMDSRun(gr, gh.sp, px, gh.amds_pt[r.k - 1], v, p, Div(gh.density[v], al))
         IN  RunTops(gr, gh, px, al, p,
                     [r EXCEPT !.k = @ + 1,
                               !.top[r.k].first = x.r,
                               !.amds_pt[r.k - 1] = AMDSOf(x.a),
                               !.abort = @ \/ x.a.abort])

\* std::greater on pair<double, pair<Vertex, int>>
PairGreater(x, y) ==
    \/ KeyLess(y.first, x.first)
    \/ (~KeyLess(x.first, y.first) /\ (y.v < x.v \/ (y.v = x.v /\ y.i < x.i)))

\* the loop that stores the densities and puts the vertices back
RECURSIVE Requeue(_, _, _)
Requeue(gh, tops, k) ==
    IF k > Len(tops) THEN gh
    ELSE Requeue(IF tops[k].v # none /\ Exceeds(tops[k].first, << 0, 1 >>)
                 THEN [gh EXCEPT !.density[tops[k].v] = tops[k].first,
                                 !.queue = KHeapUpdate(@, tops[k].v, Inv(tops[k].first))]
                 ELSE gh,
                 tops, k + 1)

\* the end of an iteration, "if (top[0].first - density[v]/alpha > epsilon)":
\* gh has the densities stored, st is top sorted; [gh, l]
GHLPromote(gr, gh, px, st, al) ==
    LET v  == st[1].v
        pr == Exceeds(st[1].first, Div(gh.density[v], al))
        ic == IF pr THEN increase_cover(gr, [sp |-> gh.sp, px |-> px], v, gh.amds_pt[st[1].i], 0)
              ELSE [sp |-> gh.sp, px |-> px]
    IN  [gh |-> [gh EXCEPT !.sp = ic.sp, !.proxy = ic.px.inlabel,
                           !.v = v, !.promoted = pr],
         l |-> ic.px.l]

\* std::sort(top, greater) and the loop that stores the densities; q is the
\* queue after the pops, rr what the parallel region left
GHLStore(gr, gh, px, q, rr, st, al) ==
    GHLPromote(gr,
               Requeue([gh EXCEPT !.queue = q, !.amds_pt = rr.amds_pt, !.abort = rr.abort],
                       st, 1),
               px, st, al)

\* the parallel region of an iteration on the popped vertices pp.top
GHLTops(gr, gh, px, pp, rr, al) ==
    GHLStore(gr, gh, px, pp.queue, rr, SortBy(PairGreater, rr.top), al)

\* one iteration of the loop "while (!queue.empty())": [gh, l]
GHLPopped(gr, gh, px, pp, al, p) ==
    GHLTops(gr, gh, px, pp,
            RunTops(gr, gh, px, al, p,
                    [k |-> 1, top |-> pp.top, amds_pt |-> gh.amds_pt, abort |-> FALSE]),
            al)

GHLStep(gr, gh, l, al, p) ==
    GHLPopped(gr, gh, [l |-> l, inlabel |-> gh.proxy],
              PopTops(gh.queue,
                      [k \in 1..NumThreads |-> [first |-> << 0, 1 >>, v |-> none, i |-> 0 - 1]],
                      0),
              al, p)

\* ============================================================ LabelingCheck
\* LabelingCheck::run: step k is v = k / 2, side = k % 2; one Dijkstra object
\* serves every task (run clears it first); res as the code keeps it
RECURSIVE LabelingCheckLoop(_, _, _, _, _)
LabelingCheckLoop(gr, l, dj, k, res) ==
    IF k = 2 * gr.n THEN res
    ELSE LET v == k \div 2
             s == k % 2
             r == DijkstraRun(gr, dj, v, s)
         IN  LabelingCheckLoop(gr, l, r, k + 1,
                 IF \E u \in 0..gr.n - 1 : r.distance[u] # query(l, v, u, s)
                 THEN FALSE ELSE res)

LabelingCheckRun(gr, l) == LabelingCheckLoop(gr, l, BasicDijkstraNew(gr.n), 0, TRUE)

\* Labeling::sort: std::sort of the (hub, distance) pairs of each list
PairLess(x, y) == x[1] < y[1] \/ (x[1] = y[1] /\ x[2] < y[2])

\* (mutant) the hubs are sorted and the distances stay where they were
sortHubs(l) ==
    [l EXCEPT !.label_v = [v \in DOMAIN @ |-> [s \in Side |-> SortBy(<, @[v][s])]]]

sort(l) ==
    LET pairs(v, s) == [k \in 1..Len(l.label_v[v][s]) |-> << l.label_v[v][s][k], l.label_d[v][s][k] >>]
        sorted(v, s) == SortBy(PairLess, pairs(v, s))
    IN  [l EXCEPT !.label_v = [v \in DOMAIN @ |-> [s \in Side |->
                                  [k \in 1..Len(sorted(v, s)) |-> sorted(v, s)[k][1]]]],
                  !.label_d = [v \in DOMAIN @ |-> [s \in Side |->
                                  [k \in 1..Len(sorted(v, s)) |-> sorted(v, s)[k][2]]]]]

\* ============================================================ state machine
VARIABLES
    par,        \* the team of an omp parallel cover update: phase, loop index, tasks
    queue,      \* KHeap<Vertex, K>: size, heap, heap_pos, key (the heap of a client)
    g,          \* Graph: n, arcs, a_begin, a_end
    labeling,   \* Labeling: n, label_v, label_d
    order,      \* std::vector<Vertex> order (rank i at position i + 1)
    dij,        \* the BasicDijkstra base of Akiba
    i,          \* Akiba::run: the loop counter
    side,       \* Akiba::run: the side of the next iteration (0 first, then 1)
    hhl,        \* the HHL object: sp, queue, selected, cover_size, sp_size, cover_diff_pt
    type,       \* HHL::run: 0 path-greedy, 1 label-greedy
    wi,         \* HHL::run: the loop counter of the selection loop
    saved,      \* the labeling the greedy builder returned, kept for comparison
    ghl,        \* the GHL object: sp, queue, proxy, density, amds_pt
    alpha,      \* GHL::run: alpha, a quotient << numerator, denominator >>
    ret,        \* the call of Labeling::query just made: its arguments u, v, f and the result r
    pc          \* position of the running program

vars == << par, queue, g, labeling, order, dij, i, side, hhl, type, wi, saved, ghl, alpha, ret, pc >>

Unused == << >>

\* ------------------------------------------------------------------ inputs
Pairs(n) == {p \in (0..n - 1) \X (0..n - 1) : p[1] # p[2]}

\* the arc lists handed to add_arc: at most MaxArcs arcs with positive
\* lengths up to MaxLen, one per ordered pair of distinct vertices
ArcInputs(n) ==
    UNION {[S -> 1..MaxLen] : S \in {T \in SUBSET Pairs(n) : Cardinality(T) \in 1..MaxArcs}}

RECURSIVE AddArcs(_, _)
AddArcs(w, todo) ==
    IF todo = {} THEN << >>
    ELSE LET p == CHOOSE q \in todo : TRUE
         IN  add_tmp_arc(AddArcs(w, todo \ {p}), p[1], p[2], w[p], FALSE)

\* set_n(n); add_arc(u, v, w) for every arc of w; finilize()
NoArc == [first |-> 0, second |-> Arc(0, 0, FALSE, FALSE)]
GraphOf(n, w) == init_arcs(n, AddArcs(w, DOMAIN w), NoArc)

\* the same with every length 1
UnitInputs(n) ==
    {[p \in S |-> 1] : S \in {T \in SUBSET Pairs(n) : Cardinality(T) \in 1..MaxArcs}}

\* set_n(n); add_arc(u, v, 1, true) for every edge of w; finilize()
RECURSIVE AddEdges(_, _)
AddEdges(w, todo) ==
    IF todo = {} THEN << >>
    ELSE LET p == CHOOSE q \in todo : TRUE
         IN  add_tmp_arc(AddEdges(w, todo \ {p}), p[1], p[2], w[p], TRUE)

UndirectedGraphOf(n, w) == init_arcs(n, AddEdges(w, DOMAIN w), NoArc)

EdgeInputs(n) ==
    {[p \in S |-> 1] : S \in {T \in SUBSET {q \in Pairs(n) : q[1] < q[2]} :
                                  Cardinality(T) \in 1..MaxArcs}}

\* every weighted graph on 2 .. N vertices
SmallGraphs == UNION {{GraphOf(n, w) : w \in ArcInputs(n)} : n \in 2..N}

\* the graphs of the model: every weighted graph on 2 .. N vertices, every
\* unit-length graph on N + 1 vertices and every undirected unit-length
\* graph on N + 1 vertices
Graphs ==
    SmallGraphs
    \cup {GraphOf(N + 1, w) : w \in UnitInputs(N + 1)}
    \cup {UndirectedGraphOf(N + 1, w) : w \in EdgeInputs(N + 1)}

Orders(n) == {o \in [1..n -> 0..n - 1] : \A a, b \in 1..n : a # b => o[a] # o[b]}

\* the schedules of the dynamic loop: iterations are handed out in index
\* order, a thread takes its next one when it has finished the one before
Schedules(n) ==
    {s \in [ord : Orders(n), asg : [0..n - 1 -> 0..NumThreads - 1]] :
        \A a, b \in 1..n : \A c \in 1..n :
            (s.asg[s.ord[a]] = s.asg[s.ord[b]] /\ s.ord[a] < s.ord[b] /\ s.ord[b] <= s.ord[c])
                => a < c}

\* ------------------------------------------------------------- Akiba (main)
\* Graph g; Labeling labels(g.get_n()); order read; Akiba(g)
AkibaInitOn(gs) ==
    /\ par = Unused
    /\ queue = Unused
    /\ g \in gs
    /\ labeling = LabelingNew(g.n)
    /\ order \in Orders(g.n)
    /\ dij = BasicDijkstraNew(g.n)
    /\ i = 0
    /\ side = 0
    /\ hhl = Unused /\ type = 0 /\ wi = 0 /\ saved = Unused
    /\ ghl = Unused /\ alpha = Unused /\ ret = Unused
    /\ pc = "akiba"

AkibaInit == AkibaInitOn(Graphs)

\* Akiba::run up to the loop: labeling.clear()
AkibaRun ==
    /\ pc = "akiba"
    /\ labeling' = LabelingClear(labeling)
    /\ i' = 0
    /\ side' = 0
    /\ pc' = "akiba_loop"
    /\ UNCHANGED << par, queue, g, order, dij, hhl, type, wi, saved, ghl, alpha, ret >>

\* one call of iteration(i, side, order, labeling) of the loop of Akiba::run
AkibaIteration ==
    /\ pc = "akiba_loop"
    /\ i < Len(order)
    /\ \E st \in {iteration(g, dij, labeling, i, side, [k \in 0..Len(order) - 1 |-> order[k + 1]])} :
         /\ dij' = st.dj
         /\ labeling' = st.l
         /\ pc' = IF st.dj.abort THEN "abort" ELSE pc
    /\ side' = Not(side)
    /\ i' = IF side = 1 THEN i + 1 ELSE i
    /\ UNCHANGED << par, queue, g, order, hhl, type, wi, saved, ghl, alpha, ret >>

\* Akiba::run returns
AkibaReturn ==
    /\ pc = "akiba_loop"
    /\ i = Len(order)
    /\ pc' = "done"
    /\ UNCHANGED << par, queue, g, labeling, order, dij, i, side, hhl, type, wi, saved, ghl, alpha, ret >>

AkibaNext == AkibaRun \/ AkibaIteration \/ AkibaReturn

SpecAkiba == AkibaInit /\ [][AkibaNext]_vars


\* --------------------------------------------------------------- hhl (main)
\* Graph g; Labeling labels(g.get_n()); std::vector<Vertex> order; HHL(g, t)
HHLInitOn(gs) ==
    /\ par = Unused
    /\ queue = Unused
    /\ g \in gs
    /\ labeling = LabelingNew(g.n)
    /\ order = << >>
    /\ hhl = HHLNew(g)
    /\ type \in {0, 1}
    /\ wi = 0
    /\ dij = Unused /\ i = 0 /\ side = 0 /\ saved = Unused
    /\ ghl = Unused /\ alpha = Unused /\ ret = Unused
    /\ pc = "hhl"

HHLInit == HHLInitOn(Graphs)

\* HHL::run up to the selection loop
HHLRun ==
    /\ pc = "hhl"
    /\ order' = [k \in 1..g.n |-> 0]
    /\ labeling' = LabelingClear(labeling)
    /\ LET h0 == [hhl EXCEPT !.queue = KHeapClear(@),
                             !.sp = SPClear(@),
                             !.selected = [v \in DOMAIN @ |-> FALSE]]
       IN  hhl' = QueueInit(InitCount(g, h0, 0), 0, type)
    /\ wi' = 0
    /\ pc' = "hhl_loop"
    /\ UNCHANGED << par, queue, g, dij, i, side, type, saved, ghl, alpha, ret >>

\* one iteration of the selection loop up to the end of the parallel
\* region, but for the distribution of the tasks over the threads
HHLUpdate(gr, h, l, w, rank) ==
    LET h1 == [h EXCEPT !.queue = KHeapPop(@), !.selected[w] = TRUE]
        l1 == AddHubs(l, h1.sp, get_descendants(gr, h1.sp, w, w, 0), 1, w, rank, 0)
        l2 == AddHubs(l1, h1.sp, get_descendants(gr, h1.sp, w, w, 1), 1, w, rank, 1)
        no == [v \in 0..gr.n - 1 |-> << >>]
        p0 == UpdatePhase(gr, h1, w, 0, 0, no)
        p1 == UpdatePhase(gr, p0.h, w, 1, 0, no)
    IN  [h |-> p1.h, l |-> l2, incs |-> p1.incs]

\* (mutant) the queue is updated when the differences of thread 0 are
\* collected and those of the other threads are not yet
HHLMergeEarly(h, incs, asg, w, ty) ==
    LET h3 == [h EXCEPT !.cover_diff_pt = ApplyIncs(@, incs, asg, 0)]
        h4 == CollectDiff(h3, 0)
        ok == h4.cover_size[w] = 0 /\ h4.sp_size[w] = 0
    IN  [h |-> IF ok THEN [h4 EXCEPT !.queue = QueueUpdate(CollectDiffFirst(h3, 0), 0, ty).queue]
               ELSE h4,
         ok |-> ok]

\* the rest of the iteration: the merge of the per-thread differences, the
\* assert and the queue update; ok is the value of the asserted condition
HHLMerge(h, incs, asg, w, ty) ==
    LET h3 == [h EXCEPT !.cover_diff_pt = ApplyIncs(@, incs, asg, 0)]
        h4 == CollectDiff(h3, 0)
        ok == h4.cover_size[w] = 0 /\ h4.sp_size[w] = 0
    IN  [h |-> IF ok THEN QueueUpdate(h4, 0, ty) ELSE h4, ok |-> ok]

\* one iteration of the selection loop; the dynamic schedule gives the task
\* of v in the forward phase to any thread asg[v]
HHLSelect ==
    /\ pc = "hhl_loop"
    /\ ~empty(hhl.queue)
    /\ \E u \in {HHLUpdate(g, hhl, labeling, top(hhl.queue), wi)} :
         /\ order' = [order EXCEPT ![wi + 1] = top(hhl.queue)]
         /\ labeling' = u.l
         /\ \E asg \in [0..g.n - 1 -> 0..NumThreads - 1] :
              \E r \in {HHLMerge(u.h, u.incs, asg, top(hhl.queue), type)} :
                 /\ hhl' = r.h
                 /\ pc' = IF r.ok THEN pc ELSE "abort"
    /\ wi' = wi + 1
    /\ UNCHANGED << par, queue, g, dij, i, side, type, saved, ghl, alpha, ret >>

\* HHL::run returns
HHLReturn ==
    /\ pc = "hhl_loop"
    /\ empty(hhl.queue)
    /\ pc' = "hhl_done"
    /\ UNCHANGED << par, queue, g, labeling, order, dij, i, side, hhl, type, wi, saved, ghl, alpha, ret >>

HHLNext == HHLRun \/ HHLSelect \/ HHLReturn

SpecHHL == HHLInit /\ [][HHLNext]_vars

\* ------------------------------------------------------------ hhl -u (main)
\* Graph g; Labeling labels(g.get_n()); std::vector<Vertex> order; UHHL(g, t)
UHHLInitOn(gs) ==
    /\ par = Unused
    /\ queue = Unused
    /\ g \in gs
    /\ labeling = LabelingNew(g.n)
    /\ order = << >>
    /\ hhl = UHHLNew(g)
    /\ type \in {0, 1}
    /\ wi = 0
    /\ dij = Unused /\ i = 0 /\ side = 0 /\ saved = Unused
    /\ ghl = Unused /\ alpha = Unused /\ ret = Unused
    /\ pc = "uhhl"

UHHLInit == UHHLInitOn(Graphs)

\* UHHL::run up to the selection loop
UHHLRun ==
    /\ pc = "uhhl"
    /\ order' = [k \in 1..g.n |-> 0]
    /\ labeling' = LabelingClear(labeling)
    /\ \E asg \in [0..g.n - 1 -> 0..NumThreads - 1] :
         LET h0 == [hhl EXCEPT !.queue = KHeapClear(@),
                               !.sp = SPClear(@),
                               !.selected = [v \in DOMAIN @ |-> FALSE]]
         IN  hhl' = QueueInit(apply_cover_diff(UInitCount(g, h0, asg, 0), 0), 0, type)
    /\ wi' = 0
    /\ pc' = "uhhl_loop"
    /\ UNCHANGED << par, queue, g, dij, i, side, type, saved, ghl, alpha, ret >>

\* (mutant) the hub is put into the labels of one side only
UHHLPopOneSide(gr, h, l, w, rank) ==
    LET h1 == [h EXCEPT !.queue = KHeapPop(@), !.selected[w] = TRUE]
        l1 == AddHubs(l, h1.sp, usp_get_descendants(gr, h1.sp, w, w, 0), 1, w, rank, 0)
    IN  [h |-> h1, l |-> l1,
         ds0 |-> [v \in 0..gr.n - 1 |-> usp_get_descendants(gr, h1.sp, v, w, 0)],
         ds1 |-> [v \in 0..gr.n - 1 |-> usp_get_descendants(gr, h1.sp, v, w, 1)]]

\* one iteration of the selection loop up to the parallel region: the pop,
\* the labels, and the d of every task of the two phases
UHHLPop(gr, h, l, w, rank) ==
    LET h1 == [h EXCEPT !.queue = KHeapPop(@), !.selected[w] = TRUE]
        l1 == AddHubs(l, h1.sp, usp_get_descendants(gr, h1.sp, w, w, 0), 1, w, rank, 0)
        l2 == AddHubs(l1, h1.sp, usp_get_descendants(gr, h1.sp, w, w, 1), 1, w, rank, 1)
    IN  [h |-> h1, l |-> l2,
         ds0 |-> [v \in 0..gr.n - 1 |-> usp_get_descendants(gr, h1.sp, v, w, 0)],
         ds1 |-> [v \in 0..gr.n - 1 |-> usp_get_descendants(gr, h1.sp, v, w, 1)]]

\* the rest of the iteration: apply_cover_diff, the assert and the queue
\* update; ok is the value of the asserted condition
UHHLMerge(h, w, ty) ==
    LET h4 == apply_cover_diff(h, 0)
        ok == h4.cover_size[w] = 0 /\ h4.sp_size[w] = 0
    IN  [h |-> IF ok THEN QueueUpdate(h4, 0, ty) ELSE h4, ok |-> ok]

\* one iteration of the selection loop; the dynamic schedule gives each task
\* of each phase to any thread
UHHLSelect ==
    /\ pc = "uhhl_loop"
    /\ ~empty(hhl.queue)
    /\ \E u \in {UHHLPop(g, hhl, labeling, top(hhl.queue), wi)} :
         /\ order' = [order EXCEPT ![wi + 1] = top(hhl.queue)]
         /\ labeling' = u.l
         /\ \E a0 \in [Active(u.ds0) -> 0..NumThreads - 1] :
              \E p0 \in {UPhase(u.h, 0, u.ds0, a0, 0)} :
                 \E a1 \in [Active(u.ds1) -> 0..NumThreads - 1] :
                    \E r \in {UHHLMerge(UPhase(p0, 1, u.ds1, a1, 0), top(hhl.queue), type)} :
                       /\ hhl' = r.h
                       /\ pc' = IF r.ok THEN pc ELSE "abort"
    /\ wi' = wi + 1
    /\ UNCHANGED << par, queue, g, dij, i, side, type, saved, ghl, alpha, ret >>

\* UHHL::run returns
UHHLReturn ==
    /\ pc = "uhhl_loop"
    /\ empty(hhl.queue)
    /\ pc' = "uhhl_done"
    /\ UNCHANGED << par, queue, g, labeling, order, dij, i, side, hhl, type, wi, saved, ghl, alpha, ret >>

UHHLNext == UHHLRun \/ UHHLSelect \/ UHHLReturn

SpecUHHL == UHHLInit /\ [][UHHLNext]_vars

\* ------------------------------------------------- hhl and hhl -u (main)
\* either of the two programs, as a sequential program that keeps running
\* while it has a step to take: a step of the selection loop changes wi,
\* the others change pc
SelectionInit == HHLInit \/ UHHLInit

SelectionNext == HHLNext \/ UHHLNext

SelectionAdvance ==
    \/ pc \in {"hhl", "uhhl"} /\ pc' \in {"hhl_loop", "uhhl_loop"} /\ wi' = 0
    \/ pc \in {"hhl_loop", "uhhl_loop"} /\ pc' \in {pc, "abort"} /\ wi' = wi + 1
    \/ pc \in {"hhl_loop", "uhhl_loop"} /\ pc' \in {"hhl_done", "uhhl_done"} /\ wi' = wi

SelectionPosition == << pc, wi >>

FairSpecSelection ==
    SelectionInit /\ [][SelectionNext]_vars /\ WF_SelectionPosition(SelectionAdvance)

\* --------------------------------------------- hhl -u, then hhl on the graph
\* hhl's main without -u on the same graph and type: Labeling
\* labels(g.get_n()); HHL(g, t).  The labeling hhl -u built is kept in saved.
HHLAfterUHHL ==
    /\ pc = "uhhl_done"
    /\ saved' = labeling
    /\ labeling' = LabelingNew(g.n)
    /\ order' = << >>
    /\ hhl' = HHLNew(g)
    /\ wi' = 0
    /\ pc' = "hhl"
    /\ UNCHANGED << par, queue, g, dij, i, side, type, ghl, alpha, ret >>

UHHLHHLNext == UHHLRun \/ UHHLSelect \/ UHHLReturn \/ HHLAfterUHHL
               \/ HHLRun \/ HHLSelect \/ HHLReturn

SpecUHHLHHL == UHHLInit /\ [][UHHLHHLNext]_vars

\* ------------------------------- a client that runs one builder object twice
\* builder.run(type, order, labeling) has returned; the client keeps a copy
\* of order and labeling in ret and calls run again on the same builder
\* with the same arguments
RunAgain ==
    /\ pc \in {"hhl_done", "uhhl_done"}
    /\ ret = Unused
    /\ ret' = [order |-> order, labeling |-> labeling]
    /\ pc' = IF pc = "hhl_done" THEN "hhl" ELSE "uhhl"
    /\ UNCHANGED << par, queue, g, labeling, order, dij, i, side, hhl, type, wi, saved, ghl, alpha >>

RerunNext == HHLNext \/ UHHLNext \/ RunAgain

RerunInit == HHLInitOn(SmallGraphs) \/ UHHLInitOn(SmallGraphs)

SpecRerun == RerunInit /\ [][RerunNext]_vars

\* ------------------------------------------------------------- ghl (main)
\* the values of -a: 1.0, the smallest main accepts, and the default 1.1
Alphas == {<< 1, 1 >>, << 11, 10 >>}

\* Graph g; Labeling labels(g.get_n()); GHL(g, num_threads)
GHLInit ==
    /\ par = Unused
    /\ queue = Unused
    /\ g \in SmallGraphs
    /\ labeling = LabelingNew(g.n)
    /\ ghl = GHLNew(g)
    /\ alpha \in Alphas
    /\ order = << >> /\ dij = Unused /\ i = 0 /\ side = 0
    /\ hhl = Unused /\ type = 0 /\ wi = 0 /\ saved = Unused /\ ret = Unused
    /\ pc = "ghl"

\* GHL::run up to the lazy-update loop, under any schedule of the tasks
GHLRun ==
    /\ pc = "ghl"
    /\ \E px \in {set_labeling([l |-> labeling, inlabel |-> ghl.proxy], labeling)} :
         \E g0 \in {[ghl EXCEPT !.queue = KHeapClear(@), !.sp = SPClear(@),
                                !.proxy = px.inlabel]} :
            \E xs \in {[v \in 0..g.n - 1 |->
                          AMDSRun(g, g0.sp, px, AMDSNew(g.n), v, DefaultP, << DblMax, 1 >>)]} :
               \E s \in Schedules(g.n) :
                  \E r \in {InitDensity(g0, xs, s.ord, s.asg, 1)} :
                     /\ ghl' = r
                     /\ labeling' = px.l
                     /\ pc' = IF r.abort THEN "abort" ELSE "ghl_loop"
    /\ UNCHANGED << par, queue, g, order, dij, i, side, hhl, type, wi, saved, alpha, ret >>

\* while (!queue.empty()): the queue is not empty, the body runs next
GHLTest ==
    /\ pc = "ghl_loop"
    /\ ~empty(ghl.queue)
    /\ pc' = "ghl_body"
    /\ UNCHANGED << par, queue, g, labeling, order, dij, i, side, hhl, type, wi, saved, ghl, alpha, ret >>

\* the body of one iteration of the lazy-update loop
GHLIteration ==
    /\ pc = "ghl_body"
    /\ \E r \in {GHLStep(g, ghl, labeling, alpha, DefaultP)} :
         /\ ghl' = r.gh
         /\ labeling' = r.l
         /\ pc' = IF r.gh.abort THEN "abort" ELSE "ghl_loop"
    /\ UNCHANGED << par, queue, g, order, dij, i, side, hhl, type, wi, saved, alpha, ret >>

\* the queue is empty: labeling.sort(), and GHL::run returns
GHLSort ==
    /\ pc = "ghl_loop"
    /\ empty(ghl.queue)
    /\ labeling' = sort(labeling)
    /\ pc' = "ghl_done"
    /\ UNCHANGED << par, queue, g, order, dij, i, side, hhl, type, wi, saved, ghl, alpha, ret >>

GHLNext == GHLRun \/ GHLTest \/ GHLIteration \/ GHLSort

SpecGHL == GHLInit /\ [][GHLNext]_vars

\* control leaves a location of GHL::run that is not its return: GHLRun,
\* GHLTest or GHLSort, and GHLIteration are enabled wherever pc is "ghl",
\* "ghl_loop" and "ghl_body", and they are the steps that change pc
GHLAdvance ==
    \/ pc = "ghl" /\ pc' \in {"ghl_loop", "abort"}
    \/ pc = "ghl_loop" /\ pc' \in {"ghl_body", "ghl_done"}
    \/ pc = "ghl_body" /\ pc' \in {"ghl_loop", "abort"}

\* a sequential program keeps running while it has a step to take
FairSpecGHL == SpecGHL /\ WF_pc(GHLAdvance)

\* ------------------------------------------------------ a client of Labeling
\* Labeling labels(LabN), and then any calls of add, sort and query
LabelingInit ==
    /\ par = Unused
    /\ queue = Unused
    /\ labeling = LabelingNew(LabN)
    /\ ret = Unused
    /\ g = Unused /\ order = << >> /\ dij = Unused /\ i = 0 /\ side = 0
    /\ hhl = Unused /\ type = 0 /\ wi = 0 /\ saved = Unused
    /\ ghl = Unused /\ alpha = Unused
    /\ pc = "labeling"

\* the number of (hub, distance) pairs the lists of the vertices 0..u hold
RECURSIVE LabelingSize(_, _)
LabelingSize(l, u) ==
    IF u < 0 THEN 0
    ELSE Len(l.label_v[u][0]) + Len(l.label_v[u][1]) + LabelingSize(l, u - 1)

\* labels.add(u, f, h, d)
LabelingAdd ==
    /\ pc \in {"labeling", "added", "sorted", "queried"}
    /\ LabelingSize(labeling, LabN - 1) < MaxAdds
    /\ \E u \in 0..LabN - 1 : \E f \in Side : \E h \in 0..MaxHub : \E d \in 1..MaxDist :
          labeling' = add(labeling, u, f, h, d)
    /\ pc' = "added"
    /\ ret' = Unused
    /\ UNCHANGED << par, queue, g, order, dij, i, side, hhl, type, wi, saved, ghl, alpha >>

\* labels.sort()
LabelingSort ==
    /\ pc \in {"labeling", "added", "sorted", "queried"}
    /\ labeling' = sort(labeling)
    /\ pc' = "sorted"
    /\ ret' = Unused
    /\ UNCHANGED << par, queue, g, order, dij, i, side, hhl, type, wi, saved, ghl, alpha >>

\* labels.query(u, v, f); an assert that fails ends the program
LabelingQuery ==
    /\ pc \in {"labeling", "added", "sorted", "queried"}
    /\ \E u, v \in 0..LabN - 1 : \E f \in Side :
          IF query_ok(labeling, u, v, f)
          THEN /\ ret' = [u |-> u, v |-> v, f |-> f, r |-> query(labeling, u, v, f)]
               /\ pc' = "queried"
          ELSE /\ ret' = ret
               /\ pc' = "abort"
    /\ UNCHANGED << par, queue, g, labeling, order, dij, i, side, hhl, type, wi, saved, ghl, alpha >>

LabelingNext == LabelingAdd \/ LabelingSort \/ LabelingQuery

SpecLabeling == LabelingInit /\ [][LabelingNext]_vars

\* ------------------------------------------- a client that reads a label file
\* the label files of the model
Files == UNION {[1..k -> 0..LabN] : k \in 0..FileTokens}

\* labels.read(file, check_n); saved keeps the labeling as it was before the
\* call, the file and check_n
LabelingRead ==
    /\ pc \in {"labeling", "added"}
    /\ \E file \in Files : \E check_n \in 0..LabN : \E junk \in 0..MaxJunk :
         \E x \in {read(labeling, file, check_n, junk)} :
            /\ labeling' = x.l
            /\ ret' = [r |-> x.r]
            /\ saved' = [l |-> labeling, file |-> file, check_n |-> check_n]
    /\ pc' = "read"
    /\ UNCHANGED << par, queue, g, order, dij, i, side, hhl, type, wi, ghl, alpha >>

ReadNext == LabelingAdd \/ LabelingRead

SpecRead == LabelingInit /\ [][ReadNext]_vars

\* --------------------------------------------------- any of the builders
BuildersInit == AkibaInitOn(SmallGraphs) \/ HHLInitOn(SmallGraphs) \/ UHHLInitOn(SmallGraphs)

BuildersNext == AkibaRun \/ AkibaIteration \/ AkibaReturn
                \/ HHLRun \/ HHLSelect \/ HHLReturn
                \/ UHHLRun \/ UHHLSelect \/ UHHLReturn

SpecBuilders == BuildersInit /\ [][BuildersNext]_vars

\* ------------------------------ hhl and hhl -u, the cover update task by task
\* The parallel region of the selection loop as the team runs it.  par is
\* [w, forward, next, run, acc, done]: the popped vertex, the value of the
\* loop variable forward (2 after the loop), the next index the dynamic
\* loop hands out, the task each thread is running (none: idle or waiting
\* at the end of the loop), the memory cells that task reads (rd) and writes
\* (wr), and the tasks of each phase that have completed.

\* omp_get_thread_num() of thread t
\* (mutant) every thread gets the number 0
omp_thread_zero(t) == 0

omp_get_thread_num(t) == t

\* the cell get_cover(u, v, forward) reads
CoverCell(u, v, f) == IF f = 1 THEN << "cover", u, v >> ELSE << "cover", v, u >>

\* the heads of the arcs get_descendants scans: those of the members of d
ScannedHeads(gr, d, f) ==
    UNION {{ArcRange(gr, d[k], f)[j].head : j \in DOMAIN ArcRange(gr, d[k], f)} : k \in DOMAIN d}

\* the cells get_descendants(v, w, d, forward) touches on thread t when it
\* returns d: the cover of (v, w) and of every scanned head (a head is
\* tested when it is not yet visited, and a visited one was tested before
\* it was pushed), and visited_pt[t]
DescCells(gr, t, v, w, d, f) ==
    [rd |-> {CoverCell(v, w, f)} \cup {CoverCell(v, x, f) : x \in ScannedHeads(gr, d, f)}
            \cup {<< "visited_pt", t, x >> : x \in ScannedHeads(gr, d, f)},
     wr |-> {<< "visited_pt", t, x >> : x \in Range(d)}]

\* the cells of the forward-phase loop of HHL at d[k]: get_ascendants(v,
\* d[k], a), ++cover_diff_pt[thread][a[j]], set_cover(v, d[k])
HHLPathCells(gr, sp, t, v, x) ==
    LET a == get_ascendants(gr, sp, v, x, 1)
    IN  [rd |-> {CoverCell(v, x, 1)}
                \cup {<< "visited_pt", t, y >> : y \in ScannedHeads(gr, a, 0)}
                \cup {<< "cover_diff_pt", omp_get_thread_num(t), y >> : y \in Range(a)},
         wr |-> {<< "visited_pt", t, y >> : y \in Range(a)}
                \cup {<< "cover_diff_pt", omp_get_thread_num(t), y >> : y \in Range(a)}
                \cup {CoverCell(v, x, 1)}]

\* the task of v in phase f of HHL's update, run by thread t: the state it
\* leaves and the cells it touches
HHLTask(gr, h, w, f, v, t) ==
    LET d  == get_descendants(gr, h.sp, v, w, f)
        h1 == [h EXCEPT !.sp_size[v] = @ - Len(d)]
        r  == IF f = 1 THEN CoverPaths(gr, [sp |-> h1.sp, inc |-> << >>], v, d, 1)
              ELSE [sp |-> h1.sp, inc |-> << >>]
        dc == DescCells(gr, t, v, w, d, f)
        \* get_ascendants(v, d[k]) does not look at the cover of other pairs
        \* and set_cover(v, d[j]), j < k, does not change it: lc[k] is the
        \* access of the iteration k of the loop
        lc == [k \in DOMAIN d |-> IF f = 1 THEN HHLPathCells(gr, h.sp, t, v, d[k])
                                  ELSE [rd |-> {}, wr |-> {}]]
    IN  [h |-> [h1 EXCEPT !.sp = r.sp,
                          !.cover_diff_pt = IncDiff(@, omp_get_thread_num(t), r.inc, 1)],
         acc |-> [rd |-> dc.rd \cup {<< "sp_size", v >>} \cup UNION {lc[k].rd : k \in DOMAIN d},
                  wr |-> dc.wr \cup {<< "sp_size", v >>} \cup UNION {lc[k].wr : k \in DOMAIN d}]]

\* the task of v in phase f of UHHL's update, run by thread t
UHHLTask(gr, h, w, f, v, t) ==
    LET d  == usp_get_descendants(gr, h.sp, v, w, f)
        me == omp_get_thread_num(t)
        st == UpdateSubtree([sp |-> h.sp, cd |-> h.cover_diff_pt[me], sub |-> h.subtree_pt[t]],
                            v, d, Len(d), f)
        dc == DescCells(gr, t, v, w, d, f)
        ps == {get_parent(h.sp, v, d[k], f) : k \in 2..Len(d)}
        qs == {d[k] : k \in {j \in DOMAIN d : j > 1 \/ f = 1}}
        lc == {<< "subtree_pt", t, x >> : x \in Range(d) \cup ps}
                 \cup {<< "cover_diff_pt", me, x >> : x \in qs}
                 \cup {<< "sp_size", v >>}
    IN  [h |-> [h EXCEPT !.sp_size[v] = @ - Len(d),
                         !.sp = st.sp,
                         !.cover_diff_pt[me] = st.cd,
                         !.subtree_pt[t] = st.sub],
         acc |-> [rd |-> dc.rd \cup lc,
                  wr |-> dc.wr \cup lc
                         \cup (IF f = 1 THEN {CoverCell(v, x, 1) : x \in Range(d)} ELSE {})]]

\* the pop, selected[w], order[wi] and the labels of w (HHL)
HHLPop(gr, h, l, w, rank) ==
    LET h1 == [h EXCEPT !.queue = KHeapPop(@), !.selected[w] = TRUE]
        l1 == AddHubs(l, h1.sp, get_descendants(gr, h1.sp, w, w, 0), 1, w, rank, 0)
    IN  [h |-> h1, l |-> AddHubs(l1, h1.sp, get_descendants(gr, h1.sp, w, w, 1), 1, w, rank, 1)]

Idle == [rd |-> {}, wr |-> {}]

\* the iteration up to "#pragma omp parallel": the team starts with forward = 0
ParEnter ==
    /\ pc \in {"hhl_loop", "uhhl_loop"}
    /\ ~empty(hhl.queue)
    /\ \E u \in {IF pc = "hhl_loop" THEN HHLPop(g, hhl, labeling, top(hhl.queue), wi)
                 ELSE UHHLPop(g, hhl, labeling, top(hhl.queue), wi)} :
         /\ hhl' = u.h
         /\ labeling' = u.l
    /\ order' = [order EXCEPT ![wi + 1] = top(hhl.queue)]
    /\ par' = [w |-> top(hhl.queue), forward |-> 0, next |-> 0,
               run |-> [t \in 0..NumThreads - 1 |-> none],
               acc |-> [t \in 0..NumThreads - 1 |-> Idle],
               done |-> [f \in 0..1 |-> {}]]
    /\ pc' = IF pc = "hhl_loop" THEN "hhl_update" ELSE "uhhl_update"
    /\ UNCHANGED << queue, g, dij, i, side, type, wi, saved, ghl, alpha, ret >>

\* "#pragma omp for schedule(dynamic)": a thread that runs no task takes
\* the next index of the loop and runs its body
ParTask ==
    /\ pc \in {"hhl_update", "uhhl_update"}
    /\ par.forward < 2
    /\ par.next < g.n
    /\ \E t \in 0..NumThreads - 1 :
         /\ par.run[t] = none
         /\ \E r \in {IF pc = "hhl_update" THEN HHLTask(g, hhl, par.w, par.forward, par.next, t)
                      ELSE UHHLTask(g, hhl, par.w, par.forward, par.next, t)} :
              /\ hhl' = r.h
              /\ par' = [par EXCEPT !.next = @ + 1, !.run[t] = par.next, !.acc[t] = r.acc]
    /\ UNCHANGED << queue, g, labeling, order, dij, i, side, type, wi, saved, ghl, alpha, ret, pc >>

\* the end of the loop body on thread t
ParTaskEnd ==
    /\ pc \in {"hhl_update", "uhhl_update"}
    /\ \E t \in 0..NumThreads - 1 :
         /\ par.run[t] # none
         /\ par' = [par EXCEPT !.run[t] = none, !.acc[t] = Idle,
                               !.done[par.forward] = @ \cup {par.run[t]}]
    /\ UNCHANGED << queue, g, labeling, order, dij, i, side, hhl, type, wi, saved, ghl, alpha,
                    ret, pc >>

\* "#pragma omp barrier": a thread passes it when every thread of the team
\* has reached it
\* (mutant) a thread that finds the loop exhausted goes on to the next phase
BarrierNoWait(p, n) == p.next = n

BarrierPassed(p, n) == p.next = n /\ \A t \in DOMAIN p.run : p.run[t] = none

ParBarrier ==
    /\ pc \in {"hhl_update", "uhhl_update"}
    /\ par.forward < 2
    /\ BarrierPassed(par, g.n)
    /\ par' = [par EXCEPT !.forward = @ + 1, !.next = 0]
    /\ UNCHANGED << queue, g, labeling, order, dij, i, side, hhl, type, wi, saved, ghl, alpha,
                    ret, pc >>

\* the end of the parallel region and the rest of the iteration
ParExit ==
    /\ pc \in {"hhl_update", "uhhl_update"}
    /\ par.forward = 2
    /\ \A t \in DOMAIN par.run : par.run[t] = none
    /\ \E r \in {IF pc = "hhl_update"
                 THEN HHLMerge(hhl, [v \in 0..g.n - 1 |-> << >>], [v \in 0..g.n - 1 |-> 0],
                               par.w, type)
                 ELSE UHHLMerge(hhl, par.w, type)} :
         /\ hhl' = r.h
         /\ pc' = IF ~r.ok THEN "abort"
                  ELSE IF pc = "hhl_update" THEN "hhl_loop" ELSE "uhhl_loop"
    /\ wi' = wi + 1
    /\ par' = Unused
    /\ UNCHANGED << queue, g, labeling, order, dij, i, side, type, saved, ghl, alpha, ret >>

UpdateInit == HHLInitOn(SmallGraphs) \/ UHHLInitOn(SmallGraphs)

UpdateNext ==
    \/ HHLRun \/ UHHLRun
    \/ ParEnter \/ ParTask \/ ParTaskEnd \/ ParBarrier \/ ParExit
    \/ HHLReturn \/ UHHLReturn

SpecUpdate == UpdateInit /\ [][UpdateNext]_vars

\* ------------------------------------------------- hhl, hhl -u and ghl (main)
\* any of the three greedy builders on a graph
GreedyInit == HHLInitOn(SmallGraphs) \/ UHHLInitOn(SmallGraphs) \/ GHLInit

GreedyNext == HHLNext \/ UHHLNext \/ GHLNext

SpecGreedy == GreedyInit /\ [][GreedyNext]_vars

\* ------------------------------------------- hhl -o order, then akiba -o order
\* akiba's main on the order hhl returned: Labeling labels(g.get_n());
\* Akiba(g).  The labeling hhl built is kept in saved.
AkibaOnOrder ==
    /\ pc = "hhl_done"
    /\ Len(order) = g.n
    /\ saved' = labeling
    /\ labeling' = LabelingNew(g.n)
    /\ dij' = BasicDijkstraNew(g.n)
    /\ i' = 0
    /\ side' = 0
    /\ pc' = "akiba"
    /\ UNCHANGED << par, queue, g, order, hhl, type, wi, ghl, alpha, ret >>

HHLAkibaNext == HHLRun \/ HHLSelect \/ HHLReturn \/ AkibaOnOrder
                \/ AkibaRun \/ AkibaIteration \/ AkibaReturn

HHLAkibaInit == HHLInitOn(SmallGraphs)

SpecHHLAkiba == HHLAkibaInit /\ [][HHLAkibaNext]_vars

\* ------------------------------------------------------ a client of KHeap
\* KHeap<Vertex, Distance> queue(HeapN) and any sequence of at most MaxCalls
\* calls on it; i counts the calls.  ret records the last call: its element,
\* for update the key given, and for update and extract the key the
\* element had (none if it was absent).  The heap compares keys and never elements, so the client
\* inserts the absent elements in the order of their numbers.
KHeapInit ==
    /\ par = Unused
    /\ queue = KHeapNew(HeapN)
    /\ ret = Unused
    /\ i = 0
    /\ g = Unused /\ labeling = Unused /\ order = << >> /\ dij = Unused /\ side = 0
    /\ hhl = Unused /\ type = 0 /\ wi = 0 /\ saved = Unused
    /\ ghl = Unused /\ alpha = Unused
    /\ pc = "kheap"

\* queue.update(v, k)
KHeapCallUpdate ==
    /\ pc \in {"kheap", "updated", "extracted", "popped", "cleared"}
    /\ i < MaxCalls
    /\ \E v \in 0..HeapN - 1 : \E k \in 1..MaxKey :
          /\ queue.heap_pos[v] = invalid => \A w \in 0..v - 1 : queue.heap_pos[w] # invalid
          /\ queue' = KHeapUpdate(queue, v, IntKey(k))
          /\ ret' = [v |-> v, k |-> k,
                     old |-> IF queue.heap_pos[v] = invalid THEN none ELSE queue.key[v][1]]
    /\ pc' = "updated"
    /\ i' = i + 1
    /\ UNCHANGED << par, g, labeling, order, dij, side, hhl, type, wi, saved, ghl, alpha >>

\* queue.extract(v)
KHeapCallExtract ==
    /\ pc \in {"kheap", "updated", "extracted", "popped", "cleared"}
    /\ i < MaxCalls
    /\ \E v \in 0..HeapN - 1 :
          /\ queue' = KHeapExtract(queue, v)
          /\ ret' = [v |-> v,
                     old |-> IF queue.heap_pos[v] = invalid THEN none ELSE queue.key[v][1]]
    /\ pc' = "extracted"
    /\ i' = i + 1
    /\ UNCHANGED << par, g, labeling, order, dij, side, hhl, type, wi, saved, ghl, alpha >>

\* v = queue.pop(), on a heap that is not empty (top's precondition)
KHeapCallPop ==
    /\ pc \in {"kheap", "updated", "extracted", "popped", "cleared"}
    /\ i < MaxCalls
    /\ ~empty(queue)
    /\ queue' = KHeapPop(queue)
    /\ ret' = [v |-> top(queue)]
    /\ pc' = "popped"
    /\ i' = i + 1
    /\ UNCHANGED << par, g, labeling, order, dij, side, hhl, type, wi, saved, ghl, alpha >>

\* queue.clear()
KHeapCallClear ==
    /\ pc \in {"kheap", "updated", "extracted", "popped", "cleared"}
    /\ i < MaxCalls
    /\ queue' = KHeapClear(queue)
    /\ ret' = Unused
    /\ pc' = "cleared"
    /\ i' = i + 1
    /\ UNCHANGED << par, g, labeling, order, dij, side, hhl, type, wi, saved, ghl, alpha >>

KHeapNext == KHeapCallUpdate \/ KHeapCallExtract \/ KHeapCallPop \/ KHeapCallClear

SpecKHeap == KHeapInit /\ [][KHeapNext]_vars

\* ---------------------------------------------------- a client of Dijkstra
\* Dijkstra dijkstra(g) and any sequence of run(s, forward) on the one
\* object; ret records the arguments of the last run; an assert that fails
\* ends the program
DijkstraInitOn(gs) ==
    /\ par = Unused
    /\ queue = Unused
    /\ g \in gs
    /\ dij = BasicDijkstraNew(g.n)
    /\ ret = Unused
    /\ labeling = Unused /\ order = << >> /\ i = 0 /\ side = 0
    /\ hhl = Unused /\ type = 0 /\ wi = 0 /\ saved = Unused
    /\ ghl = Unused /\ alpha = Unused
    /\ pc = "dijkstra"

DijkstraInit == DijkstraInitOn(Graphs)

\* dijkstra.run(s, f)
DijkstraCallRun ==
    /\ pc \in {"dijkstra", "dijkstra_ran"}
    /\ \E s \in 0..g.n - 1 : \E f \in Side :
          /\ dij' = DijkstraRun(g, dij, s, f)
          /\ ret' = [s |-> s, f |-> f]
    /\ pc' = IF dij'.abort THEN "abort" ELSE "dijkstra_ran"
    /\ UNCHANGED << par, queue, g, labeling, order, i, side, hhl, type, wi, saved, ghl, alpha >>

SpecDijkstra == DijkstraInit /\ [][DijkstraCallRun]_vars

\* ------------------------------------- clients that use one engine many times
\* USPDijkstra dijkstra(g)
USPDInitOn(gs) ==
    /\ par = Unused
    /\ queue = Unused
    /\ g \in gs
    /\ dij = USPDijkstraNew(g.n)
    /\ ret = Unused
    /\ labeling = Unused /\ order = << >> /\ i = 0 /\ side = 0
    /\ hhl = Unused /\ type = 0 /\ wi = 0 /\ saved = Unused
    /\ ghl = Unused /\ alpha = Unused
    /\ pc = "uspd"

USPDInit == USPDInitOn(Graphs)

\* dijkstra.run(s, f) of a USPDijkstra
USPDCallRun ==
    /\ pc \in {"uspd", "uspd_ran"}
    /\ \E s \in 0..g.n - 1 : \E f \in Side :
          /\ dij' = USPRun(g, dij, s, f)
          /\ ret' = [s |-> s, f |-> f]
    /\ pc' = IF dij'.abort THEN "abort" ELSE "uspd_ran"
    /\ UNCHANGED << par, queue, g, labeling, order, i, side, hhl, type, wi, saved, ghl, alpha >>

\* a Dijkstra, a USPDijkstra or an Akiba, each used for run after run
EnginesInit == DijkstraInitOn(SmallGraphs) \/ USPDInitOn(SmallGraphs) \/ AkibaInitOn(SmallGraphs)

EnginesNext == DijkstraCallRun \/ USPDCallRun \/ AkibaRun \/ AkibaIteration \/ AkibaReturn

SpecEngines == EnginesInit /\ [][EnginesNext]_vars

\* ------------------------------------------ clients on graphs with any lengths
\* the lengths add_arc takes are any Distance: none, the least, the largest
RelaxLengths == {0, 1, infty}

RelaxInputs ==
    UNION {[S -> RelaxLengths] : S \in {T \in SUBSET Pairs(N) : Cardinality(T) \in 1..RelaxArcs}}

RelaxGraphs == {GraphOf(N, w) : w \in RelaxInputs}

\* a Dijkstra, a USPDijkstra or an Akiba on such a graph, in either build
RelaxInit ==
    /\ par = Unused
    /\ queue = Unused
    /\ g \in RelaxGraphs
    /\ ret = Unused
    /\ i = 0 /\ side = 0
    /\ hhl = Unused /\ type = 0 /\ wi = 0 /\ saved = Unused
    /\ ghl = Unused /\ alpha = Unused
    /\ \E b \in BOOLEAN :
         \/ /\ pc = "dijkstra"
            /\ dij = [BasicDijkstraNew(g.n) EXCEPT !.folded = b]
            /\ labeling = Unused /\ order = << >>
         \/ /\ pc = "uspd"
            /\ dij = [USPDijkstraNew(g.n) EXCEPT !.folded = b]
            /\ labeling = Unused /\ order = << >>
         \/ /\ pc = "akiba_first"
            /\ dij = [BasicDijkstraNew(g.n) EXCEPT !.folded = b]
            /\ labeling = LabelingNew(g.n) /\ order \in Orders(g.n)

\* Akiba::run up to the end of its first call, iteration(0, false, ...)
AkibaFirst ==
    /\ pc = "akiba_first"
    /\ \E st \in {iteration(g, dij, LabelingClear(labeling), 0, 0,
                            [k \in 0..Len(order) - 1 |-> order[k + 1]])} :
         /\ dij' = st.dj
         /\ labeling' = st.l
         /\ pc' = IF st.dj.abort THEN "abort" ELSE "akiba_ran"
    /\ ret' = [s |-> order[1], f |-> 0]
    /\ UNCHANGED << par, queue, g, order, i, side, hhl, type, wi, saved, ghl, alpha >>

RelaxNext == DijkstraCallRun \/ USPDCallRun \/ AkibaFirst

SpecRelax == RelaxInit /\ [][RelaxNext]_vars

\* ------------------------------------------------- a client that builds a Graph
\* Graph g; g.set_n(n).  saved lists the calls of add_arc made so far
\* (tmp_arcs itself is cleared by init_arcs).
GraphInit ==
    /\ par = Unused
    /\ queue = Unused
    /\ \E n \in 1..N : g = [n |-> n, m |-> 0, tmp_arcs |-> << >>]
    /\ saved = << >>
    /\ dij = Unused /\ ret = Unused
    /\ labeling = Unused /\ order = << >> /\ i = 0 /\ side = 0
    /\ hhl = Unused /\ type = 0 /\ wi = 0
    /\ ghl = Unused /\ alpha = Unused
    /\ pc = "graph"

\* g.add_arc(u, v, w, undirected)
GraphAddArc ==
    /\ pc = "graph"
    /\ Len(saved) < GraphAdds
    /\ \E u \in 0..g.n - 1 : \E v \in 0..g.n - 1 : \E w \in 1..MaxLen : \E undirected \in BOOLEAN :
         /\ g' = [g EXCEPT !.tmp_arcs = add_tmp_arc(@, u, v, w, undirected),
                           !.m = @ + 1 + B2I(undirected)]
         /\ saved' = Append(saved, [u |-> u, v |-> v, w |-> w, undirected |-> undirected])
    /\ UNCHANGED << par, queue, labeling, order, dij, i, side, hhl, type, wi, ghl, alpha, ret, pc >>

\* the element a.resize(i+1) appends to an empty list: pair<Vertex,Arc>()
\* sets first to 0 and runs Arc() {}, which initializes no field, so the two
\* flag bits hold what the memory held
UninitializedArcs == {[first |-> 0, second |-> Arc(0, 0, f, r)] : f \in BOOLEAN, r \in BOOLEAN}

\* g.finilize()
GraphFinilize ==
    /\ pc = "graph"
    /\ \E junk \in UninitializedArcs :
         g' = init_arcs(g.n, g.tmp_arcs, junk) @@ [m |-> g.m]
    /\ pc' = "graph_final"
    /\ UNCHANGED << par, queue, labeling, order, dij, i, side, hhl, type, wi, saved, ghl, alpha, ret >>

GraphNext == GraphAddArc \/ GraphFinilize

SpecGraph == GraphInit /\ [][GraphNext]_vars


\* ================================================================== claims
\* The reference the claims are stated against: the length of a shortest
\* path along the forward arcs of the graph (Floyd-Warshall), infty if none.
ArcLen(gr, u, v) ==
    LET ls == {a.length : a \in {x \in Range(ArcRange(gr, u, 1)) : x.head = v}}
    IN  IF u = v THEN 0
        ELSE IF ls = {} THEN infty
        ELSE CHOOSE m \in ls : \A k \in ls : m <= k

Plus(a, b) == IF a = infty \/ b = infty THEN infty ELSE a + b

RECURSIVE FloydWarshall(_, _, _)
FloydWarshall(n, m, k) ==
    IF k = n THEN m
    ELSE FloydWarshall(n,
             [u \in 0..n - 1 |-> [v \in 0..n - 1 |-> Min(m[u][v], Plus(m[u][k], m[k][v]))]],
             k + 1)

RefDist(gr) ==
    FloydWarshall(gr.n, [u \in 0..gr.n - 1 |-> [v \in 0..gr.n - 1 |-> ArcLen(gr, u, v)]], 0)

\* x lies on a shortest path from u to v
OnShortest(D, u, x, v) == D[u][v] # infty /\ Plus(D[u][x], D[x][v]) = D[u][v]

V == 0..g.n - 1

\* every query of the labeling is the exact distance
QueriesExact(l, gr) ==
    \A D \in {RefDist(gr)} :
       \A u, v \in V : query(l, u, v, 1) = D[u][v] /\ query(l, u, v, 0) = D[v][u]

\* C1: when Akiba.run has returned, query(u, v, true) is the shortest
\* distance from u to v (infty if there is none) and query(u, v, false)
\* the shortest distance from v to u, for all u, v.
C1_AkibaExact == pc = "done" => QueriesExact(labeling, g)

\* a finished run with a pair answered through a hub that is neither
\* endpoint and a pair that is unreachable
C1_Witness ==
    /\ pc = "done"
    /\ \E u, v \in V : u # v /\ query(labeling, u, v, 1) = infty
    /\ \E D \in {RefDist(g)} : \E u, v \in V : \E k \in 1..Len(order) :
          /\ order[k] \notin {u, v}
          /\ D[u][v] = 2
          /\ (k - 1) \in Range(labeling.label_v[u][1])
          /\ (k - 1) \in Range(labeling.label_v[v][0])
          /\ OnShortest(D, u, order[k], v)


\* the ranks no vertex of smaller rank shares a shortest path with: rank k
\* is canonical for (u, f) when order[k] is reachable from u on side f and
\* no order[j], j < k, lies on a shortest path between the two
Between(D, u, x, h, f) == IF f = 1 THEN OnShortest(D, u, x, h) ELSE OnShortest(D, h, x, u)
Reach(D, u, h, f) == IF f = 1 THEN D[u][h] ELSE D[h][u]

CanonicalRanks(D, ord, u, f) ==
    {k \in 0..Len(ord) - 1 :
        /\ Reach(D, u, ord[k + 1], f) # infty
        /\ \A j \in 0..k - 1 : ~Between(D, u, ord[j + 1], ord[k + 1], f)}

\* C6: when Akiba.run has returned, rank k is a hub of L[u][f] exactly when
\* order[k] is reachable from u on side f and no vertex of smaller rank lies
\* on a shortest path between them; its distance is the shortest distance,
\* and the list holds nothing else (one entry per such rank).
C6_AkibaMinimum ==
    pc = "done" =>
        \A D \in {RefDist(g)} : \A u \in V : \A f \in Side :
            /\ Range(labeling.label_v[u][f]) = CanonicalRanks(D, order, u, f)
            /\ Len(labeling.label_v[u][f]) = Cardinality(CanonicalRanks(D, order, u, f))
            /\ Len(labeling.label_d[u][f]) = Len(labeling.label_v[u][f])
            /\ \A k \in 1..Len(labeling.label_v[u][f]) :
                  labeling.label_d[u][f][k] =
                      Reach(D, u, order[labeling.label_v[u][f][k] + 1], f)

\* a finished run in which a reachable hub was pruned from a label: some
\* order[k] is reachable from u, and rank k is not in the label of u because
\* a vertex of smaller rank, other than u, lies on a shortest path
C6_Witness ==
    /\ pc = "done"
    /\ \E D \in {RefDist(g)} : \E u \in V : \E k \in 1..Len(order) : \E j \in 1..Len(order) :
          /\ j < k
          /\ order[j] # u
          /\ D[u][order[k]] # infty
          /\ OnShortest(D, u, order[j], order[k])
          /\ \A jj \in 1..k - 1 : order[jj] # u
          /\ (k - 1) \notin Range(labeling.label_v[u][1])

\* every hub list is strictly increasing in hub id
StrictlyIncreasing(s) == \A a, b \in 1..Len(s) : a < b => s[a] < s[b]
LabelsSorted(l) == \A u \in DOMAIN l.label_v : \A f \in Side : StrictlyIncreasing(l.label_v[u][f])

\* the ranks common to the forward label of s and the reverse label of t
CommonHubs(l, s, t) == Range(l.label_v[s][1]) \cap Range(l.label_v[t][0])

\* C2: when HHL.run has returned (either type), every pair (s, t) with a
\* finite distance has a hub on a shortest s-t path in the forward label of
\* s and in the reverse label of t and query(s, t) is the distance; a pair
\* with no path has no common hub and its query is infty.
C2_HHLCover ==
    pc = "hhl_done" =>
        \A D \in {RefDist(g)} : \A s, t \in V :
            IF D[s][t] # infty
            THEN /\ \E k \in CommonHubs(labeling, s, t) : OnShortest(D, s, order[k + 1], t)
                 /\ query(labeling, s, t, 1) = D[s][t]
            ELSE /\ CommonHubs(labeling, s, t) = {}
                 /\ query(labeling, s, t, 1) = infty

\* a finished label-greedy run with a pair served by a hub that is neither
\* endpoint and a pair with no path
C2_Witness ==
    /\ pc = "hhl_done"
    /\ type = 1
    /\ \E D \in {RefDist(g)} : \E s, t \in V :
          /\ D[s][t] = infty
          /\ \E u, v \in V : \E k \in CommonHubs(labeling, u, v) :
                order[k + 1] \notin {u, v} /\ OnShortest(D, u, order[k + 1], v)

\* C7: when Akiba.run has returned on the order HHL.run produced, its
\* labeling is the one HHL.run built: the same sequence of hub ranks and of
\* distances for every vertex and side.
C7_AkibaIsHHL ==
    (pc = "done" /\ saved # Unused) =>
        /\ labeling.label_v = saved.label_v
        /\ labeling.label_d = saved.label_d

\* both have run, and some label holds two hubs or more and some reachable
\* vertex was pruned from a label
C7_Witness ==
    /\ pc = "done"
    /\ saved # Unused
    /\ \E u \in V : Len(saved.label_v[u][1]) >= 2
    /\ \E D \in {RefDist(g)} : \E u \in V : \E k \in 1..Len(order) :
          /\ D[u][order[k]] # infty
          /\ (k - 1) \notin Range(labeling.label_v[u][1])

\* HHL.run fails no assert
HHLNoAbort == pc # "abort"

\* UHHL.run fails no assert
UHHLNoAbort == pc # "abort" /\ (pc \in {"uhhl", "uhhl_loop", "uhhl_done"} => ~hhl.sp.abort)

\* the per-thread arrays are all zero between iterations
UHHLArraysZero ==
    pc \in {"uhhl_loop", "uhhl_done"} =>
        \A t \in 0..NumThreads - 1 : \A v \in V :
            hhl.cover_diff_pt[t][v] = 0 /\ hhl.subtree_pt[t][v] = 0

UHHLExact == pc = "uhhl_done" => QueriesExact(labeling, g)

\* the graph has two shortest paths between some pair: two arcs into v end
\* shortest paths from u
TiedPaths(gr, D) ==
    \E u, v \in 0..gr.n - 1 : \E p1, p2 \in 0..gr.n - 1 :
        /\ p1 # p2 /\ p1 # v /\ p2 # v
        /\ D[u][v] # infty
        /\ ArcLen(gr, p1, v) # infty /\ Plus(D[u][p1], ArcLen(gr, p1, v)) = D[u][v]
        /\ ArcLen(gr, p2, v) # infty /\ Plus(D[u][p2], ArcLen(gr, p2, v)) = D[u][v]

\* C3: when hhl -u (UHHL.run) and then hhl (HHL.run) have run on the same
\* graph, whose shortest paths need not be unique, the two labelings answer
\* every query alike, with the exact distance (infty when unreachable).
C3_UHHLAsHHL ==
    (pc = "hhl_done" /\ saved # Unused) =>
        \A D \in {RefDist(g)} : \A u, v \in V :
            /\ query(saved, u, v, 1) = query(labeling, u, v, 1)
            /\ query(saved, u, v, 0) = query(labeling, u, v, 0)
            /\ query(saved, u, v, 1) = D[u][v]
            /\ query(saved, u, v, 0) = D[v][u]

\* both have run on a graph with tied shortest paths, and the two labelings
\* differ
C3_Witness ==
    /\ pc = "hhl_done"
    /\ saved # Unused
    /\ TiedPaths(g, RefDist(g))
    /\ saved.label_v # labeling.label_v

\* C8: every hub list L[v][side] is strictly increasing in hub id all along
\* a run of Akiba.run, HHL.run or UHHL.run, none of which sorts, and so when
\* the run has returned: each rank occurs at most once in each list.
C8_BuildersSorted ==
    /\ LabelsSorted(labeling)
    /\ pc \in {"done", "hhl_done", "uhhl_done"} =>
          \A u \in V : \A f \in Side :
             Cardinality(Range(labeling.label_v[u][f])) = Len(labeling.label_v[u][f])

\* UHHL.run has returned and some list holds three hubs
C8_Witness ==
    /\ pc = "uhhl_done"
    /\ \E u \in V : \E f \in Side : Len(labeling.label_v[u][f]) >= 3

\* GHL.run fails no assert
GHLNoAbort == pc # "abort"

GHLExact == pc = "ghl_done" => QueriesExact(labeling, g)

\* C5: GHL.run runs to completion for every accepted alpha >= 1.0, alpha =
\* 1.0 included: on every graph the queue becomes empty after finitely many
\* iterations of the loop and run returns.
C5_GHLTerminates == <>(pc = "ghl_done")

\* with alpha > 1 the run returns
GHLTerminatesAlpha == <>(pc = "ghl_done" \/ alpha = << 1, 1 >>)

\* the hub v is in the list of u on side f with the distance d
HubAt(l, u, f, v, d) ==
    \E k \in 1..Len(l.label_v[u][f]) : l.label_v[u][f][k] = v /\ l.label_d[u][f][k] = d

\* the pair (u, w) is served by the hub v with the distances of the table D
ServedBy(l, D, u, w, v) ==
    /\ D[u][w] # infty
    /\ Plus(D[u][v], D[v][w]) = D[u][w]
    /\ HubAt(l, u, 1, v, D[u][v])
    /\ HubAt(l, w, 0, v, D[v][w])

\* with alpha > 1: every pair marked covered in SP has a common hub with
\* the exact distances, and the labeling GHL.run returns is sorted and
\* passes LabelingCheck
GHLCovered ==
    KeyLess(<< 1, 1 >>, alpha) =>
        /\ \A u, w \in V :
              ghl.sp.cover[u][w] = 1 => \E v \in V : ServedBy(labeling, ghl.sp.dist, u, w, v)
        /\ pc = "ghl_done" =>
              /\ ghl.sp.dist = RefDist(g)
              /\ LabelsSorted(labeling)
              /\ LabelingCheckRun(g, labeling)
              /\ QueriesExact(labeling, g)

\* with alpha > 1: a pair that a step marks covered has the vertex that the
\* step promotes as a common hub with the exact distances
GHLPromoted ==
    (KeyLess(<< 1, 1 >>, alpha) /\ ghl # ghl') =>
        \A u, w \in V :
           (ghl'.sp.cover[u][w] = 1 /\ ghl.sp.cover[u][w] = 0) =>
              ghl'.promoted /\ ServedBy(labeling', ghl.sp.dist, u, w, ghl'.v)

\* C4: when GHL.run returns (alpha > 1, p = 1), the labeling it has sorted
\* passes LabelingCheck: for all u, v and both sides query is the shortest
\* distance; and every pair marked covered in SP has the promoting vertex
\* as a common hub with the exact distances dist[u][v] and dist[v][w].
C4_GHLChecked == [](GHLCovered) /\ [][GHLPromoted]_vars

\* a finished run with alpha > 1 that has covered a pair through a hub that
\* is neither endpoint, and has a pair with no path
C4_Witness ==
    /\ pc = "ghl_done"
    /\ KeyLess(<< 1, 1 >>, alpha)
    /\ \E u, w, v \in V :
          /\ v # u /\ v # w /\ u # w
          /\ ghl.sp.cover[u][w] = 1
          /\ ServedBy(labeling, ghl.sp.dist, u, w, v)
          /\ query(labeling, u, w, 1) = ghl.sp.dist[u][w]
    /\ \E u, w \in V : query(labeling, u, w, 1) = infty

\* ------------------------------------------------------------ the Labeling
\* the sums d_u + d_v over the hubs common to L[u][f] and L[v][~f]
CommonSums(l, u, v, f) ==
    {l.label_d[u][f][a] + l.label_d[v][Not(f)][b] :
        << a, b >> \in {p \in (1..Len(l.label_v[u][f])) \X (1..Len(l.label_v[v][Not(f)])) :
                           l.label_v[u][f][p[1]] = l.label_v[v][Not(f)][p[2]]}}

\* after query(u, v, f) on strictly increasing lists, the result is the
\* minimum of the sums over the common hubs, infty if there is none
QueryIsMin ==
    (/\ pc = "queried"
     /\ StrictlyIncreasing(labeling.label_v[ret.u][ret.f])
     /\ StrictlyIncreasing(labeling.label_v[ret.v][Not(ret.f)])) =>
        \A S \in {CommonSums(labeling, ret.u, ret.v, ret.f)} :
           IF S = {} THEN ret.r = infty
           ELSE ret.r \in S /\ \A x \in S : ret.r <= x

\* a step that is a call of query changes no label
QueryKeepsLabels == pc' = "queried" => labeling' = labeling

\* C9: for hub lists sorted by strictly increasing hub id, query(u, v, f)
\* returns the minimum of d_u + d_v over all hubs common to L[u][f] and
\* L[v][~f], and infty when the two lists have no hub in common; it modifies
\* no label.
C9_QueryMin == [](QueryIsMin) /\ [][QueryKeepsLabels]_vars

\* a query between two vertices on sorted lists with two common hubs, the
\* later of which gives the minimum
C9_Witness ==
    /\ pc = "queried"
    /\ ret.u # ret.v
    /\ labeling.label_v[ret.u][ret.f] = << 0, 1 >>
    /\ labeling.label_v[ret.v][Not(ret.f)] = << 0, 1 >>
    /\ ret.r = labeling.label_d[ret.u][ret.f][2] + labeling.label_d[ret.v][Not(ret.f)][2]
    /\ ret.r < labeling.label_d[ret.u][ret.f][1] + labeling.label_d[ret.v][Not(ret.f)][1]

\* a query where the merge skips a hub of the first list, and one where it
\* skips a hub of the second list, before the common hub
QuerySkipsFirst ==
    /\ pc = "queried"
    /\ labeling.label_v[ret.u][ret.f] = << 0, 1 >>
    /\ labeling.label_v[ret.v][Not(ret.f)] = << 1 >>
    /\ ret.r = labeling.label_d[ret.u][ret.f][2] + labeling.label_d[ret.v][Not(ret.f)][1]

QuerySkipsSecond ==
    /\ pc = "queried"
    /\ labeling.label_v[ret.u][ret.f] = << 1 >>
    /\ labeling.label_v[ret.v][Not(ret.f)] = << 0, 1 >>
    /\ ret.r = labeling.label_d[ret.u][ret.f][1] + labeling.label_d[ret.v][Not(ret.f)][2]

\* a query on sorted lists with no hub in common
QueryNoCommonHub ==
    /\ pc = "queried"
    /\ labeling.label_v[ret.u][ret.f] = << 0 >>
    /\ labeling.label_v[ret.v][Not(ret.f)] = << 1 >>
    /\ ret.r = infty

\* how many times the list of u on side f holds the pair (h, d)
PairCount(l, u, f, h, d) ==
    Cardinality({k \in 1..Len(l.label_v[u][f]) :
                    l.label_v[u][f][k] = h /\ l.label_d[u][f][k] = d})

\* every list of b holds the pairs of the same list of a, as many times
SamePairs(a, b) ==
    \A u \in DOMAIN a.label_v : \A f \in Side :
       /\ Len(b.label_v[u][f]) = Len(a.label_v[u][f])
       /\ Len(b.label_d[u][f]) = Len(a.label_d[u][f])
       /\ \A h \in 0..MaxHub : \A d \in 1..MaxDist :
             PairCount(b, u, f, h, d) = PairCount(a, u, f, h, d)

\* every list is ordered by hub id, equal hubs by distance
PairsOrdered(l) ==
    \A u \in DOMAIN l.label_v : \A f \in Side :
       \A a, b \in 1..Len(l.label_v[u][f]) :
          a < b => \/ l.label_v[u][f][a] < l.label_v[u][f][b]
                   \/ /\ l.label_v[u][f][a] = l.label_v[u][f][b]
                      /\ l.label_d[u][f][a] <= l.label_d[u][f][b]

\* no list holds a hub twice
NoHubTwice(l) ==
    \A u \in DOMAIN l.label_v : \A f \in Side :
       Cardinality(Range(l.label_v[u][f])) = Len(l.label_v[u][f])

\* C10 as stated: after sort(), every hub list is strictly increasing in hub
\* id, whatever sequence of add calls preceded it, and each distance is
\* still attached to the hub it was added with.
C10_SortStrict ==
    [][pc' = "sorted" => (LabelsSorted(labeling') /\ SamePairs(labeling, labeling'))]_vars

\* C10, amended: after sort(), every hub list is ordered by hub id, equal
\* hubs by distance, and holds the pairs it held before; it is strictly
\* increasing in hub id if and only if no hub was added to it twice.
C10_SortOrdered ==
    [][pc' = "sorted" =>
          /\ PairsOrdered(labeling')
          /\ SamePairs(labeling, labeling')
          /\ LabelsSorted(labeling') <=> NoHubTwice(labeling)]_vars

\* sort() has run on a list that holds a hub twice, with two distances, and
\* on a list of two hubs whose distances are in the other order
C10_Witness ==
    /\ pc = "sorted"
    /\ \E u \in 0..LabN - 1 : \E f \in Side :
          /\ Len(labeling.label_v[u][f]) = 2
          /\ labeling.label_v[u][f][1] = labeling.label_v[u][f][2]
          /\ labeling.label_d[u][f][1] < labeling.label_d[u][f][2]
    /\ \E u \in 0..LabN - 1 : \E f \in Side :
          /\ Len(labeling.label_v[u][f]) = 2
          /\ labeling.label_v[u][f][1] < labeling.label_v[u][f][2]
          /\ labeling.label_d[u][f][1] > labeling.label_d[u][f][2]

\* ------------------------------------------------------------------- KHeap
\* the elements present in the heap
Present(h) == {v \in DOMAIN h.heap_pos : h.heap_pos[v] # invalid}

\* no present element has a smaller key than v
MinKey(h, v) == \A w \in Present(h) : ~KeyLess(h.key[w], h.key[v])

\* every present element but v stays present with its key
OthersKept(h, h2, v) ==
    \A w \in Present(h) \ {v} :
        /\ w \in Present(h2)
        /\ h2.key[w] = h.key[w]
        /\ h2.heap_pos[w] < h2.size
        /\ h2.heap[h2.heap_pos[w]] = w

\* the elements that at most n consecutive pops return, in order
RECURSIVE Drain(_, _)
Drain(h, n) ==
    IF n = 0 \/ empty(h) THEN << >>
    ELSE << top(h) >> \o Drain(KHeapPop(h), n - 1)

\* consecutive pops return every present element once, by non-decreasing key
DrainSorted(h) ==
    \A D \in {Drain(h, Cardinality(DOMAIN h.heap_pos) + 1)} :
        /\ Len(D) = Cardinality(Present(h))
        /\ Range(D) = Present(h)
        /\ \A j, k \in 1..Len(D) : j < k => ~KeyLess(h.key[D[k]], h.key[D[j]])

PopTakesMin ==
    pc' = "popped" =>
        /\ ret'.v \in Present(queue)
        /\ MinKey(queue, ret'.v)
        /\ Present(queue') = Present(queue) \ {ret'.v}
        /\ OthersKept(queue, queue', ret'.v)
        /\ pc = "popped" => ~KeyLess(queue.key[ret'.v], queue.key[ret.v])

\* C11: after any sequence of update, extract, pop and clear, pop removes
\* and returns a present element of minimal key, and leaves the others;
\* consecutive pops return non-decreasing keys and every present element
\* exactly once.
C11_PopMinimum == [](pc \in {"kheap", "updated", "extracted", "popped", "cleared"} => DrainSorted(queue))
                      /\ [][PopTakesMin]_vars

\* a pop from a full heap (two levels below the root) that leaves both keys
C11_Witness ==
    /\ pc = "popped"
    /\ queue.size = HeapN - 1
    /\ queue.key[ret.v] = IntKey(1)
    /\ \E w, x \in Present(queue) : queue.key[w] = IntKey(1) /\ queue.key[x] = IntKey(MaxKey)

UpdateSetsKey ==
    pc' = "updated" =>
        /\ (ret'.old = none) <=> (ret'.v \notin Present(queue))
        /\ ret'.old # none => queue.key[ret'.v] = IntKey(ret'.old)
        /\ Present(queue') = Present(queue) \cup {ret'.v}
        /\ queue'.key[ret'.v] = IntKey(ret'.k)
        /\ queue'.heap[queue'.heap_pos[ret'.v]] = ret'.v
        /\ OthersKept(queue, queue', ret'.v)
        /\ MinKey(queue', top(queue'))
        /\ (\A w \in Present(queue) \ {ret'.v} : KeyLess(IntKey(ret'.k), queue.key[w]))
               => top(queue') = ret'.v
        /\ (\E w \in Present(queue) \ {ret'.v} : KeyLess(queue.key[w], IntKey(ret'.k)))
               => top(queue') # ret'.v
        /\ DrainSorted(queue')

\* C12: update(v, k) inserts an absent v with key k and otherwise replaces
\* v's key by k, the other elements staying as they are; the heap then
\* orders v by k, smaller or larger than the key before, so the next pop
\* reflects the latest key.
C12_UpdateLatestKey == [][UpdateSetsKey]_vars

\* an element of a full heap got a smaller key and became the top
C12_Witness ==
    /\ pc = "updated"
    /\ ret.old = MaxKey /\ ret.k = 1
    /\ queue.size = HeapN
    /\ top(queue) = ret.v
    /\ \A w \in Present(queue) \ {ret.v} : queue.key[w] = IntKey(MaxKey)

\* an element of a full heap got a larger key and left the top
UpdateLargerKey ==
    /\ pc = "updated"
    /\ ret.old = 1 /\ ret.k = MaxKey
    /\ queue.size = HeapN
    /\ queue.heap_pos[ret.v] > KWay

ExtractRemoves ==
    pc' = "extracted" =>
        IF ret'.v \notin Present(queue)
        THEN ret'.old = none /\ queue' = queue
        ELSE /\ ret'.old # none
             /\ Present(queue') = Present(queue) \ {ret'.v}
             /\ queue'.size = queue.size - 1
             /\ OthersKept(queue, queue', ret'.v)

\* C13: extract(v) of an absent v changes nothing (size, heap array,
\* positions, keys); extract(v) of a present v removes exactly v and leaves
\* every other present element in the heap with its key.
C13_ExtractFrame == [][ExtractRemoves]_vars

\* extract of an absent element from a heap that holds others
C13_Witness ==
    /\ pc = "extracted"
    /\ ret.old = none
    /\ queue.size >= 2

\* extract of an inner element of a full heap
ExtractPresent ==
    /\ pc = "extracted"
    /\ ret.old # none
    /\ queue.size = HeapN - 1

\* ---------------------------------------------------------------- Dijkstra
\* the lengths of the arcs of side f from u to v, the shortest of them, and
\* the lengths of the shortest paths from s along the arcs of side f
SideArcs(gr, u, v, f) == {a.length : a \in {x \in Range(ArcRange(gr, u, f)) : x.head = v}}

SideLen(gr, u, v, f) ==
    IF u = v THEN 0
    ELSE IF SideArcs(gr, u, v, f) = {} THEN infty
    ELSE CHOOSE m \in SideArcs(gr, u, v, f) : \A k \in SideArcs(gr, u, v, f) : m <= k

\* Bellman-Ford from s: d[v] after k more rounds over the arc lengths L
RECURSIVE BellmanFord(_, _, _)
BellmanFord(L, d, k) ==
    IF k = 0 THEN d
    ELSE BellmanFord(L,
             [v \in DOMAIN d |->
                 CHOOSE m \in {Plus(d[u], L[u][v]) : u \in DOMAIN d} :
                     \A u \in DOMAIN d : m <= Plus(d[u], L[u][v])],
             k - 1)

SideDist(gr, s, f) ==
    BellmanFord([u \in 0..gr.n - 1 |-> [v \in 0..gr.n - 1 |-> SideLen(gr, u, v, f)]],
                [v \in 0..gr.n - 1 |-> IF v = s THEN 0 ELSE infty],
                gr.n - 1)

\* C14: Dijkstra.run(s, forward) leaves distance[v] the length of a shortest
\* path from s to v along the arcs of the chosen side (0 for s, infty for an
\* unreachable v); parent[v] of a reachable v other than s is a neighbour
\* with distance[parent[v]] + arc length = distance[v]; parent[s] is none.
C14_DijkstraExact ==
    pc = "dijkstra_ran" =>
        \A D \in {SideDist(g, ret.s, ret.f)} :
            /\ \A v \in V : dij.distance[v] = D[v]
            /\ dij.distance[ret.s] = 0
            /\ dij.parent[ret.s] = none
            /\ \A v \in V \ {ret.s} :
                  IF D[v] = infty THEN dij.parent[v] = none
                  ELSE /\ dij.parent[v] \in V
                       /\ dij.distance[v] - dij.distance[dij.parent[v]]
                              \in SideArcs(g, dij.parent[v], v, ret.f)

\* a run along the reverse arcs that reaches a vertex through another one
\* and leaves a vertex unreachable
C14_Witness ==
    /\ pc = "dijkstra_ran"
    /\ ret.f = 0
    /\ \E v, w \in V \ {ret.s} :
          /\ dij.parent[v] \notin {none, ret.s}
          /\ dij.distance[w] = infty

\* ---------------------------------------------------------- selection loop
\* in the selection loop the queue holds exactly the vertices not selected
\* yet, and those are the vertices that are not in order[0..wi)
QueueIsUnselected ==
    pc \in {"hhl_loop", "uhhl_loop", "hhl_done", "uhhl_done"} =>
        /\ wi <= g.n
        /\ Present(hhl.queue) = {v \in V : ~hhl.selected[v]}
        /\ Present(hhl.queue) = V \ {order[k] : k \in 1..wi}
        /\ Cardinality(Present(hhl.queue)) = g.n - wi

\* run returns after n iterations with a permutation in order, and the
\* vertex of rank k holds hub k at distance 0
OrderIsPermutation ==
    pc \in {"hhl_done", "uhhl_done"} =>
        /\ wi = g.n
        /\ Len(order) = g.n
        /\ {order[k] : k \in 1..g.n} = V
        /\ \A k \in 1..g.n : \A f \in Side : HubAt(labeling, order[k], f, k - 1, 0)

\* an iteration pops one vertex, gives it the next rank and pushes nothing
SelectionPopsOne ==
    (pc \in {"hhl_loop", "uhhl_loop"} /\ wi' = wi + 1 /\ pc' # "abort") =>
        /\ top(hhl.queue) \in Present(hhl.queue)
        /\ Present(hhl'.queue) = Present(hhl.queue) \ {top(hhl.queue)}
        /\ order' = [order EXCEPT ![wi + 1] = top(hhl.queue)]
        /\ hhl'.selected = [hhl.selected EXCEPT ![top(hhl.queue)] = TRUE]

\* C15: HHL.run and UHHL.run terminate after exactly n iterations of the
\* selection loop: every iteration pops one vertex that is never pushed
\* again, every unselected vertex stays in the queue, and on return order
\* is a permutation of [0, n) with order[wi] the vertex selected at rank wi.
C15_SelectionTerminates ==
    /\ [](QueueIsUnselected /\ OrderIsPermutation)
    /\ [][SelectionPopsOne]_vars
    /\ <>(pc \in {"hhl_done", "uhhl_done"})

\* UHHL.run has returned on a graph of N + 1 vertices with an order that
\* is not the order of the vertex numbers
C15_Witness ==
    /\ pc = "uhhl_done"
    /\ g.n = N + 1
    /\ wi = g.n
    /\ \E k \in 1..g.n : order[k] # k - 1

\* the same for HHL.run
HHLSelectedAll ==
    /\ pc = "hhl_done"
    /\ g.n = N + 1
    /\ wi = g.n
    /\ \E k \in 1..g.n : order[k] # k - 1

\* -------------------------------------------------------------- determinism
\* HHL::run with every task on thread 0: [order, l] at the return
RECURSIVE HHLLoopInOrder(_, _, _, _, _, _)
HHLLoopInOrder(gr, h, l, ord, ty, rank) ==
    IF empty(h.queue) THEN [order |-> ord, l |-> l]
    ELSE LET w == top(h.queue)
             u == HHLUpdate(gr, h, l, w, rank)
             r == HHLMerge(u.h, u.incs, [v \in 0..gr.n - 1 |-> 0], w, ty)
         IN  IF r.ok THEN HHLLoopInOrder(gr, r.h, u.l, [ord EXCEPT ![rank + 1] = w], ty, rank + 1)
             ELSE [order |-> << >>, l |-> u.l]

HHLInOrder(gr, ty) ==
    HHLLoopInOrder(gr, QueueInit(InitCount(gr, HHLNew(gr), 0), 0, ty), LabelingNew(gr.n),
                   [k \in 1..gr.n |-> 0], ty, 0)

\* UHHL::run with every task on thread 0
RECURSIVE UHHLLoopInOrder(_, _, _, _, _, _)
UHHLLoopInOrder(gr, h, l, ord, ty, rank) ==
    IF empty(h.queue) THEN [order |-> ord, l |-> l]
    ELSE LET w  == top(h.queue)
             u  == UHHLPop(gr, h, l, w, rank)
             p0 == UPhase(u.h, 0, u.ds0, [v \in Active(u.ds0) |-> 0], 0)
             r  == UHHLMerge(UPhase(p0, 1, u.ds1, [v \in Active(u.ds1) |-> 0], 0), w, ty)
         IN  IF r.ok THEN UHHLLoopInOrder(gr, r.h, u.l, [ord EXCEPT ![rank + 1] = w], ty, rank + 1)
             ELSE [order |-> << >>, l |-> u.l]

UHHLInOrder(gr, ty) ==
    UHHLLoopInOrder(gr,
                    QueueInit(apply_cover_diff(UInitCount(gr, UHHLNew(gr),
                                                          [v \in 0..gr.n - 1 |-> 0], 0), 0), 0, ty),
                    LabelingNew(gr.n), [k \in 1..gr.n |-> 0], ty, 0)

\* GHL::run with every density task on thread 0, the tasks passing the
\* critical section in the order ord: the labeling run returns
RECURSIVE GHLLoopInOrder(_, _, _, _)
GHLLoopInOrder(gr, gh, l, al) ==
    IF empty(gh.queue) \/ gh.abort THEN sort(l)
    ELSE LET r == GHLStep(gr, gh, l, al, DefaultP)
         IN  GHLLoopInOrder(gr, r.gh, r.l, al)

GHLInOrder(gr, al, ord) ==
    LET l  == LabelingNew(gr.n)
        px == set_labeling([l |-> l, inlabel |-> GHLNew(gr).proxy], l)
        g0 == [GHLNew(gr) EXCEPT !.proxy = px.inlabel]
        xs == [v \in 0..gr.n - 1 |->
                  AMDSRun(gr, g0.sp, px, AMDSNew(gr.n), v, DefaultP, << DblMax, 1 >>)]
    IN  GHLLoopInOrder(gr, InitDensity(g0, xs, ord, [v \in 0..gr.n - 1 |-> 0], 1), px.l, al)

\* HHL and UHHL return what they return with every task on thread 0
SelectionInOrder ==
    /\ pc = "hhl_done" =>
          \A r \in {HHLInOrder(g, type)} : order = r.order /\ labeling = r.l
    /\ pc = "uhhl_done" =>
          \A r \in {UHHLInOrder(g, type)} : order = r.order /\ labeling = r.l

HHLReturned == pc = "hhl_done" /\ g.n = N + 1 /\ type = 1

\* ------------------------------------------------------- selection counters
\* C17: in every iteration of the HHL and UHHL selection loops, after the
\* per-thread differences are merged, the vertex w just selected has
\* cover_size[w] = 0 and sp_size[w] = 0: the assert never fails on a graph
\* with positive arc lengths, for UHHL also when shortest paths are tied.
C17_SelectedIsZero ==
    [][(pc \in {"hhl_loop", "uhhl_loop"} /\ wi' = wi + 1) =>
          /\ pc' # "abort"
          /\ hhl'.cover_size[top(hhl.queue)] = 0
          /\ hhl'.sp_size[top(hhl.queue)] = 0
          /\ \A t \in 0..NumThreads - 1 : \A v \in V : hhl'.cover_diff_pt[t][v] = 0]_vars

\* UHHL has selected two vertices of a graph with tied shortest paths, and
\* a vertex that is not selected still has paths to cover
C17_Witness ==
    /\ pc = "uhhl_loop"
    /\ wi = 2
    /\ TiedPaths(g, RefDist(g))
    /\ \E v \in V : ~hhl.selected[v] /\ hhl.cover_size[v] > 0

\* the pair (a, b) has a finite distance and is not covered
Uncovered(sp, a, b) == sp.dist[a][b] # infty /\ sp.cover[a][b] = 0

\* C18: at the start of every HHL selection iteration cover_size[v] is the
\* number of ordered pairs (a, b) with finite distance that are not covered
\* and have v on a shortest a-b path, and sp_size[v] is the number of
\* uncovered pairs (v, x) plus the number of uncovered pairs (x, v); neither
\* counter is ever negative.
C18_CountersExact ==
    pc \in {"hhl_loop", "hhl_done"} =>
        \A v \in V :
            /\ hhl.cover_size[v] =
                   Cardinality({p \in V \X V : /\ Uncovered(hhl.sp, p[1], p[2])
                                               /\ OnShortest(hhl.sp.dist, p[1], v, p[2])})
            /\ hhl.sp_size[v] = Cardinality({x \in V : Uncovered(hhl.sp, v, x)})
                                    + Cardinality({x \in V : Uncovered(hhl.sp, x, v)})
            /\ hhl.cover_size[v] >= 0
            /\ hhl.sp_size[v] >= 0

\* HHL has selected a vertex and two others still have pairs to cover
C18_Witness ==
    /\ pc = "hhl_loop"
    /\ wi = 1
    /\ g.n = N + 1
    /\ \E u, v \in V : u # v /\ hhl.cover_size[u] > 1 /\ hhl.sp_size[v] > 0
    /\ \E a, b \in V : a # b /\ hhl.sp.cover[a][b] = 1

\* ------------------------------------------------- the phases of the update
InUpdate == pc \in {"hhl_update", "uhhl_update"}

Running == {t \in DOMAIN par.run : par.run[t] # none}

\* a task of phase f has started
Started(f) == par.done[f] # {} \/ (par.forward = f /\ Running # {})

\* the loop of phase f has run every vertex to its end
Completed(f) == par.done[f] = 0..g.n - 1

\* C19 (as stated): in each selection iteration of HHL and UHHL the cover
\* update runs as two phases separated by a barrier, and the forward-phase
\* cover updates of all vertices complete before any reverse-phase update
\* begins.
C19_ForwardFirst ==
    InUpdate => /\ Started(0) => Completed(1)
                /\ par.forward = 2 => Completed(0) /\ Completed(1)

\* C19 (amended): the update runs as two phases separated by a barrier, the
\* reverse phase (forward = 0) first: the reverse-phase updates of all
\* vertices complete before any forward-phase update, the only kind that
\* writes cover, begins, and both phases are complete when the team leaves
\* the region.
C19_ReverseFirst ==
    InUpdate => /\ Started(1) => Completed(0)
                /\ \A t \in Running : par.forward < 2
                /\ par.forward = 2 => Completed(0) /\ Completed(1)

\* both threads are running forward-phase tasks of UHHL, after every
\* reverse-phase task
C19_Witness ==
    /\ pc = "uhhl_update"
    /\ par.forward = 1
    /\ Running = 0..NumThreads - 1
    /\ Completed(0)
    /\ \E t \in Running : \E c \in par.acc[t].wr : c[1] = "cover"

\* ------------------------------------------------------ the cells of a task
\* C20: during the parallel cover update of HHL and UHHL no two tasks access
\* the same memory cell with at least one of them writing: sp_size[v] and
\* row cover[v][.] are written only by the task handling v, cover_diff_pt[t]
\* (and visited_pt[t], subtree_pt[t]) only by thread t, and no cover cell is
\* written while a task of the phase that reads the columns of cover is
\* still running.
C20_NoSharedCell ==
    InUpdate =>
       /\ \A t, u \in Running :
             t # u => par.acc[t].wr \cap (par.acc[u].rd \cup par.acc[u].wr) = {}
       /\ \A t \in Running : \A c \in par.acc[t].wr :
             /\ c[1] \in {"sp_size", "cover", "cover_diff_pt", "visited_pt", "subtree_pt"}
             /\ c[1] \in {"sp_size", "cover"} => c[2] = par.run[t]
             /\ c[1] \in {"cover_diff_pt", "visited_pt", "subtree_pt"} => c[2] = t
             /\ c[1] = "cover" => par.forward = 1 /\ Completed(0)
       /\ \A t \in Running : \A c \in par.acc[t].rd :
             c[1] = "cover" => IF par.forward = 1 THEN c[2] = par.run[t] ELSE c[3] = par.run[t]

\* two forward-phase tasks of HHL run at the same time, each of them sets
\* cover cells and counts paths in its thread's cover_diff_pt
C20_Witness ==
    /\ pc = "hhl_update"
    /\ Running = 0..NumThreads - 1
    /\ \A t \in Running : /\ \E c \in par.acc[t].wr : c[1] = "cover"
                          /\ \E c \in par.acc[t].wr : c[1] = "cover_diff_pt"
    /\ \E c \in par.acc[0].wr : c[1] = "cover_diff_pt" /\ << c[1], 1, c[3] >> \in par.acc[1].wr

\* two reverse-phase tasks run at the same time and read cover
ReverseTasksRead ==
    /\ InUpdate
    /\ par.forward = 0
    /\ Running = 0..NumThreads - 1
    /\ \A t \in Running : \E c \in par.acc[t].rd : c[1] = "cover"

\* --------------------------------------------------- the subtree accounting
\* C21: on a graph whose shortest paths are unique, initially and after
\* every selection of UHHL cover_size[v] is the number of uncovered ordered
\* pairs whose shortest path contains v, the value HHL maintains; the run
\* does not fail its assertion.
C21_SubtreeExact ==
    (pc \in {"uhhl_loop", "uhhl_done", "abort"} /\ ~TiedPaths(g, hhl.sp.dist)) =>
        /\ pc # "abort"
        /\ \A v \in V :
              hhl.cover_size[v] =
                  Cardinality({p \in V \X V : /\ Uncovered(hhl.sp, p[1], p[2])
                                              /\ OnShortest(hhl.sp.dist, p[1], v, p[2])})

\* UHHL has selected a vertex of a graph of N + 1 vertices with unique
\* shortest paths, one of them of three arcs, and a vertex that is not
\* selected lies inside a path that is not covered
C21_Witness ==
    /\ pc = "uhhl_loop"
    /\ wi = 1
    /\ g.n = N + 1
    /\ ~TiedPaths(g, hhl.sp.dist)
    /\ \E a, b \in V : hhl.sp.dist[a][b] = 3
    /\ \E v \in V : \E p \in V \X V :
          /\ ~hhl.selected[v] /\ v \notin {p[1], p[2]}
          /\ Uncovered(hhl.sp, p[1], p[2]) /\ OnShortest(hhl.sp.dist, p[1], v, p[2])

\* --------------------------------------------------------- the reverse tree
\* the vertex that follows u on the path from u to x in u's forward tree
RECURSIVE TreeNext(_, _, _, _)
TreeNext(sp, u, x, fuel) ==
    IF fuel = 0 \/ x = none THEN none
    ELSE IF sp.parent[1][u][x] = u THEN x
    ELSE TreeNext(sp, u, sp.parent[1][u][x], fuel - 1)

\* the length of the walk from u that follows parent[reverse][d][.] to d
RECURSIVE ReverseWalk(_, _, _, _, _)
ReverseWalk(gr, sp, u, d, fuel) ==
    IF u = d THEN 0
    ELSE IF fuel = 0 \/ u = none THEN infty
    ELSE Plus(ArcLen(gr, u, sp.parent[0][d][u]), ReverseWalk(gr, sp, sp.parent[0][d][u], d, fuel - 1))

\* C22: once UHHL's SP is constructed, for every pair u # d with finite
\* dist[u][d], parent[reverse][d][u] is the vertex that follows u on the
\* path from u to d in u's forward tree, and following parent[reverse][d][.]
\* from u reaches d along arcs of total length dist[u][d], also on graphs
\* with tied shortest paths; for the other pairs the entry is none.
C22_ReverseTree ==
    pc \in {"uhhl", "uhhl_loop", "uhhl_done"} =>
        \A u, d \in V :
            IF u # d /\ hhl.sp.dist[u][d] # infty
            THEN /\ hhl.sp.parent[0][d][u] # none
                 /\ hhl.sp.parent[0][d][u] = TreeNext(hhl.sp, u, d, g.n)
                 /\ ReverseWalk(g, hhl.sp, u, d, g.n) = hhl.sp.dist[u][d]
            ELSE hhl.sp.parent[0][d][u] = none

\* SP is constructed on a graph of N + 1 vertices in which two paths of
\* two arcs from u to d are shortest: the entry of (d, u) is the middle of
\* one of them
C22_Witness ==
    /\ pc = "uhhl"
    /\ g.n = N + 1
    /\ \E u, d \in V : \E a, b \in V \ {u, d} :
          /\ a # b
          /\ hhl.sp.dist[u][d] = 2
          /\ OnShortest(hhl.sp.dist, u, a, d) /\ OnShortest(hhl.sp.dist, u, b, d)
          /\ hhl.sp.parent[0][d][u] \in {a, b}

\* ------------------------------------------------------ the heap invariant
\* C23: after every public KHeap operation every position i < size has
\* key[heap[i]] <= key[heap[c]] for each child position c < size,
\* heap[heap_pos[v]] = v for every present v (at a position below size),
\* heap_pos[v] is the invalid sentinel for every absent v, and no element
\* occurs twice in heap[0..size).
C23_HeapInvariant ==
    pc \in {"kheap", "updated", "extracted", "popped", "cleared"} =>
        /\ queue.size \in 0..HeapN
        /\ \A p \in 0..queue.size - 1 :
              \A c \in p * KWay + 1..p * KWay + KWay :
                 c < queue.size => ~KeyLess(queue.key[queue.heap[c]], queue.key[queue.heap[p]])
        /\ \A v \in 0..HeapN - 1 :
              IF \E p \in 0..queue.size - 1 : queue.heap[p] = v
              THEN /\ queue.heap_pos[v] \in 0..queue.size - 1
                   /\ queue.heap[queue.heap_pos[v]] = v
              ELSE queue.heap_pos[v] = invalid
        /\ \A p, q \in 0..queue.size - 1 : p # q => queue.heap[p] # queue.heap[q]

\* an extract has taken the only element of the smallest key, the root,
\* out of a full heap: the last element has replaced it
C23_Witness ==
    /\ pc = "extracted"
    /\ ret.old # none
    /\ queue.size = HeapN - 1
    /\ queue.heap_pos[ret.v] = invalid
    /\ KeyLess(IntKey(ret.old), queue.key[queue.heap[0]])

\* ------------------------------------------------------- reuse of an engine
\* the engine as clear() (uspd_clear() for a USPDijkstra) leaves it
Cleared == IF "hops" \in DOMAIN dij THEN uspd_clear(dij) ELSE clear(dij)

\* the state every run starts from
StartsClean ==
    \A c \in {Cleared} :
        /\ empty(c.queue)
        /\ c.dirty = << >>
        /\ \A v \in V : /\ c.queue.heap_pos[v] = invalid
                        /\ c.distance[v] = infty
                        /\ c.parent[v] = none
                        /\ ~c.is_dirty[v]
                        /\ "hops" \in DOMAIN c => c.hops[v] = 0

\* every vertex a run has touched is on the dirty list, once
DirtyListed ==
    /\ \A v \in V :
          (dij.distance[v] # infty \/ dij.parent[v] # none \/ dij.is_dirty[v]
              \/ ("hops" \in DOMAIN dij /\ dij.hops[v] # 0))
          => v \in Range(dij.dirty)
    /\ \A j, k \in DOMAIN dij.dirty : j # k => dij.dirty[j] # dij.dirty[k]

\* the run just made has the result of the same run on a new engine
SameAsNew ==
    /\ pc' = "dijkstra_ran" =>
          \A r \in {DijkstraRun(g, BasicDijkstraNew(g.n), ret'.s, ret'.f)} :
             dij'.distance = r.distance /\ dij'.parent = r.parent /\ dij'.dirty = r.dirty
    /\ pc' = "uspd_ran" =>
          \A r \in {USPRun(g, USPDijkstraNew(g.n), ret'.s, ret'.f)} :
             /\ dij'.distance = r.distance /\ dij'.parent = r.parent
             /\ dij'.hops = r.hops /\ dij'.dirty = r.dirty
    /\ (pc = "akiba_loop" /\ pc' = "akiba_loop") =>
          \A r \in {iteration(g, BasicDijkstraNew(g.n), labeling, i, side,
                              [k \in 0..Len(order) - 1 |-> order[k + 1]])} :
             labeling' = r.l /\ dij'.distance = r.dj.distance /\ dij'.dirty = r.dj.dirty

\* C24: an engine can be reused: at the start of every run clear() empties
\* the queue and restores distance = infty, parent = none, is_dirty = false
\* (and hops = 0) at every vertex by resetting the vertices of the dirty
\* list, on which every touched vertex is; the result of a run of Dijkstra,
\* of USPDijkstra and of an Akiba iteration is the result of the same run
\* on an engine that has made no run before.
C24_EngineReuse ==
    /\ [](pc \in {"dijkstra", "dijkstra_ran", "uspd", "uspd_ran", "akiba", "akiba_loop", "done"}
            => StartsClean /\ DirtyListed)
    /\ [][SameAsNew]_vars

\* a Dijkstra run has left a vertex untouched that an earlier run on the
\* engine had put into the queue
C24_Witness ==
    /\ pc = "dijkstra_ran"
    /\ \E v \in V : /\ dij.distance[v] = infty
                    /\ dij.queue.key[v] # IntKey(0)

\* the same of a USPDijkstra run
USPDReused ==
    /\ pc = "uspd_ran"
    /\ \E v \in V : /\ dij.distance[v] = infty
                    /\ dij.queue.key[v] # IntKey(0)

\* ----------------------------------------------------- the relaxation guard
\* the run that has returned has scanned, from a vertex it settled, an arc
\* of length 0 or an arc whose sum with the distance of the vertex is not
\* below infty
ScannedBadArc ==
    \E u \in Range(dij.dirty) : \E k \in DOMAIN ArcRange(g, u, ret.f) :
        \/ ArcRange(g, u, ret.f)[k].length <= 0
        \/ dij.distance[u] >= infty - ArcRange(g, u, ret.f)[k].length

\* C25: every relaxation of Dijkstra, USPDijkstra and Akiba asserts
\* d + length > d and d + length < infty before it compares: a run that
\* scans from a settled vertex an arc of length 0, or an arc whose sum
\* reaches infty or wraps around, aborts and returns no distances.
C25_BadArcAborts ==
    pc \in {"dijkstra_ran", "uspd_ran", "akiba_ran"} => ~ScannedBadArc

\* the part that does not depend on the build: a length 0 and a sum of
\* exactly infty abort, and every such run aborts in the build that
\* evaluates the assert as written
DefinedSumsAbort ==
    pc \in {"dijkstra_ran", "uspd_ran", "akiba_ran"} =>
        /\ \A u \in Range(dij.dirty) : \A k \in DOMAIN ArcRange(g, u, ret.f) :
              /\ ArcRange(g, u, ret.f)[k].length > 0
              /\ dij.distance[u] # infty - ArcRange(g, u, ret.f)[k].length
        /\ ~dij.folded => ~ScannedBadArc

\* a run has returned a negative distance
NegativeDistance ==
    /\ pc \in {"dijkstra_ran", "uspd_ran", "akiba_ran"}
    /\ \E v \in V : dij.distance[v] < 0

\* a run has aborted at an arc of length 0
ZeroAborted ==
    /\ pc = "abort"
    /\ \A u \in V : \A k \in DOMAIN ArcRange(g, u, 1) : ArcRange(g, u, 1)[k].length = 0

\* ------------------------------------------------------------ adjacency ranges
\* the positions of arcs in [begin(v, f), end(v, f))
RangePositions(v, f) == begin(g, v, f)..(end(g, v, f) - 1)
Block(v) == RangePositions(v, 0) \cup RangePositions(v, 1)

\* the arcs add_arc was given that leave v (f = 1) or enter v (f = 0), as
\* << other endpoint, length >>
GivenArcs(v, f) ==
    {<< saved[k].v, saved[k].w >> : k \in {j \in DOMAIN saved :
          saved[j].u = v /\ (f = 1 \/ saved[j].undirected)}}
    \cup {<< saved[k].u, saved[k].w >> : k \in {j \in DOMAIN saved :
          saved[j].v = v /\ (f = 0 \/ saved[j].undirected)}}

\* reverse-only 0, bidirectional 1, forward-only 2
DirectionClass(a) == IF ~a.forward THEN 0 ELSE IF a.reverse THEN 1 ELSE 2
HasFlag(a, f) == IF f = 1 THEN a.forward ELSE a.reverse

ContiguousOrdered(v) ==
    /\ \A p, q \in Block(v) : \A x \in p..q : x \in Block(v)
    /\ \A p, q \in Block(v) : p < q => DirectionClass(g.arcs[p]) <= DirectionClass(g.arcs[q])
    /\ \A u \in 0..g.n - 1 : u # v => Block(u) \cap Block(v) = {}

ExactRange(v, f) ==
    /\ \A p \in RangePositions(v, f) : p \in DOMAIN g.arcs /\ HasFlag(g.arcs[p], f)
    /\ \A p \in Block(v) \ RangePositions(v, f) : ~HasFlag(g.arcs[p], f)
    /\ \A p \in RangePositions(v, f) : << g.arcs[p].head, g.arcs[p].length >> \in GivenArcs(v, f)
    /\ \A a \in GivenArcs(v, f) : \E p \in RangePositions(v, f) : g.arcs[p].head = a[1]
    /\ GivenArcs(v, f) = {} => begin(g, v, f) = end(g, v, f)

\* C26: after Graph::finilize the arcs of each vertex are contiguous and
\* ordered reverse-only, bidirectional, forward-only; the forward range of v
\* holds exactly v's arcs with the forward flag, the reverse range exactly
\* those with the reverse flag, and a range is empty when v has no arc of
\* that side, also in a graph with no arcs at all.
C26_AdjacencyRanges ==
    pc = "graph_final" =>
        \A v \in 0..g.n - 1 : ContiguousOrdered(v) /\ \A f \in Side : ExactRange(v, f)

\* the same for the graphs that were given at least one arc
C26_RangesOfGivenArcs ==
    pc = "graph_final" /\ saved # << >> =>
        \A v \in 0..g.n - 1 : ContiguousOrdered(v) /\ \A f \in Side : ExactRange(v, f)

\* a vertex with a reverse-only, a bidirectional and a forward-only arc
ThreeClasses ==
    /\ pc = "graph_final"
    /\ \E v \in 0..g.n - 1 : {DirectionClass(g.arcs[p]) : p \in Block(v)} = {0, 1, 2}

\* a graph without arcs in which vertex 0 has a non-empty range
PhantomArc ==
    /\ pc = "graph_final" /\ saved = << >>
    /\ \E f \in Side : begin(g, 0, f) # end(g, 0, f)

\* ------------------------------------------------- duplicate and dominated arcs
\* the lengths add_arc was given for the pair (u, h) on side f
GivenLengths(u, h, f) == {a[2] : a \in {b \in GivenArcs(u, f) : b[1] = h}}
\* the positions of u's adjacency on side f whose arc has head h
PositionsOf(u, h, f) == {p \in RangePositions(u, f) : g.arcs[p].head = h}

OneMinimalArc(u, h, f) ==
    /\ Cardinality(PositionsOf(u, h, f)) <= 1
    /\ GivenLengths(u, h, f) # {} =>
          \E p \in PositionsOf(u, h, f) :
              \A l \in GivenLengths(u, h, f) : g.arcs[p].length <= l

\* C27: after finilize, for every ordered pair (u, v) and each side, u's
\* adjacency on that side has at most one arc with head v, and its length is
\* the minimum given for (u, v) on that side - also when a directed arc and
\* an undirected edge of different lengths join the same endpoints.
C27_NoDominatedArc ==
    pc = "graph_final" =>
        \A u \in 0..g.n - 1 : \A h \in 0..g.n - 1 : \A f \in Side : OneMinimalArc(u, h, f)

\* a directed arc and an undirected edge of different lengths between the
\* same two endpoints
MixedPair ==
    \E j, k \in DOMAIN saved :
        /\ saved[j].undirected /\ ~saved[k].undirected
        /\ {saved[j].u, saved[j].v} = {saved[k].u, saved[k].v}
        /\ saved[j].w # saved[k].w

\* without such a pair no duplicate and no dominated arc is left
C27_NoDominatedUnmixed ==
    pc = "graph_final" /\ ~MixedPair =>
        \A u \in 0..g.n - 1 : \A h \in 0..g.n - 1 : \A f \in Side : OneMinimalArc(u, h, f)

\* the minimum always heads one of the arcs of the side
C27_MinimumKept ==
    pc = "graph_final" =>
        \A u \in 0..g.n - 1 : \A h \in 0..g.n - 1 : \A f \in Side :
            GivenLengths(u, h, f) # {} =>
                \E p \in PositionsOf(u, h, f) :
                    \A l \in GivenLengths(u, h, f) : g.arcs[p].length <= l

\* ------------------------------------------------------------ GHL lazy update
\* a step that is one iteration of the lazy-update loop
GHLIterated == pc = "ghl_body" /\ pc' = "ghl_loop"
\* the vertex of top[0] and the density the iteration has re-evaluated for
\* it: a density above epsilon is stored and the vertex put back, a density
\* of 0 leaves it out of the queue
Reevaluated ==
    IF ghl'.queue.heap_pos[ghl'.v] # invalid THEN ghl'.density[ghl'.v] ELSE << 0, 1 >>
\* the re-evaluated density is below density[v]/alpha, density[v] being the
\* density the vertex was queued with
Stale == KeyLess(Reevaluated, Div(ghl.density[ghl'.v], alpha))
Untouched == labeling' = labeling /\ ghl'.sp.cover = ghl.sp.cover /\ ghl'.proxy = ghl.proxy

GHLPromotesOnStored ==
    [][GHLIterated =>
          /\ ghl'.promoted <=> Exceeds(Reevaluated, Div(Reevaluated, alpha))
          /\ ~ghl'.promoted => Untouched
          /\ Exceeds(Reevaluated, << 0, 1 >>) =>
                 ghl'.queue.key[ghl'.v] = Inv(Reevaluated)]_vars

\* ------------------------------------------------------------- builder reuse
CountersZero ==
    /\ \A v \in V : hhl.cover_size[v] = 0 /\ hhl.sp_size[v] = 0
    /\ \A t \in 0..NumThreads - 1 : \A v \in V : hhl.cover_diff_pt[t][v] = 0

\* C29: HHL.run and UHHL.run do not reset cover_size and sp_size on entry;
\* when a run returns every cover_size[v], sp_size[v] and cover_diff entry
\* is 0, so a second run on the same builder object returns the same order
\* and labeling.
C29_RerunSame ==
    pc \in {"hhl_done", "uhhl_done"} =>
        /\ CountersZero
        /\ ret # Unused => order = ret.order /\ labeling = ret.labeling

\* a second run has returned, with hubs that are not the vertex itself
C29_Witness ==
    /\ pc \in {"hhl_done", "uhhl_done"}
    /\ ret # Unused
    /\ \E v \in V : \E f \in Side : \E k \in DOMAIN labeling.label_v[v][f] :
          labeling.label_v[v][f][k] # v

\* the second run starts from counters that run does not write before it
\* adds to them
SecondRunEntered == pc \in {"hhl", "uhhl"} /\ ret # Unused /\ CountersZero

\* ------------------------------------------------------------- Labeling::read
\* read was called with check_n # 0 on a file whose leading vertex count
\* differs from check_n
Mismatch ==
    /\ pc = "read"
    /\ saved.check_n # 0
    /\ saved.file # << >>
    /\ saved.file[1] # saved.check_n

\* C30: Labeling.read(file, check_n) with check_n # 0 and a file whose
\* leading vertex count differs from check_n returns false and leaves the
\* labeling as it was before the call: the stored n and every label list
\* are unchanged.
C30_MismatchUnchanged == Mismatch => ret.r = FALSE /\ labeling = saved.l

\* what holds: false is returned and no label list is changed
ReadMismatchKeepsLists ==
    Mismatch =>
        /\ ret.r = FALSE
        /\ labeling.label_v = saved.l.label_v
        /\ labeling.label_d = saved.l.label_d
        /\ labeling.n = saved.file[1]

\* a file that Labeling::write could have written is read in full
ReadWellFormed ==
    /\ pc = "read" /\ ret.r
    /\ labeling.n = 1 /\ saved.file = << 1, 0, 0 >>
    /\ saved.l.label_v[0][0] # << >> /\ labeling.label_v[0][0] = << >>

=============================================================================
